---- MODULE Spec2Model ----
(***************************************************************************)
(* Model of monarch.py: the Monarch reporting client, its tenacity-wrapped *)
(* fetches (get_accounts, get_categories, get_transactions, get_holdings), *)
(* the three reports and main.                                             *)
(*                                                                         *)
(* The remote client (monarchmoney.MonarchMoney) is the environment: each  *)
(* outbound call is issued in one step and returns, with a response or an  *)
(* error chosen by the environment, in a later step.                       *)
(***************************************************************************)
EXTENDS Integers, Sequences, FiniteSets, TLC

(***************************************************************************)
(* Bounds of the model.                                                    *)
(***************************************************************************)
MaxAccounts == 2
MaxHoldings == 2
MaxCategories == 1
MaxTransactions == 2
MaxCalls == 2
MaxRows == 2

(***************************************************************************)
(* Program constants.                                                      *)
(***************************************************************************)
PORTFOLIO_HEADER == <<"account", "ticker", "shares", "price", "cost">>
TRANSACTIONS_HEADER ==
    <<"date", "merchant", "category", "group", "account", "notes", "amount">>
BALANCES_HEADER == <<"account", "balance", "date_eastern", "datetime">>
FN_TX_REPORT == "transactions.csv"
FN_BALANCE_REPORT == "balance.csv"
FN_BALANCE_HISTORY_REPORT == "balance_history.csv"
FN_PORTFOLIO_REPORT == "portfolio.csv"
RETRY_DELAY == 2
StopAfterAttempt == 2
Unauthorized == 401

Files ==
    {FN_TX_REPORT, FN_BALANCE_REPORT, FN_BALANCE_HISTORY_REPORT,
     FN_PORTFOLIO_REPORT}

\* the sub-lists of a list u, of length at most n, elements in u's order
Pick(u, S) ==
    [k \in 1..Cardinality(S) |->
        u[CHOOSE i \in S : Cardinality({j \in S : j < i}) = k - 1]]
SubLists(u, n) ==
    {Pick(u, S) : S \in {T \in SUBSET DOMAIN u : Cardinality(T) <= n}}

(***************************************************************************)
(* Errors.  code = NoCode stands for an exception whose code is None.      *)
(***************************************************************************)
NoCode == 0 - 1
Error(type, code, msg) == [type |-> type, code |-> code, msg |-> msg]
Errors ==
    {Error("TransportServerError", Unauthorized, "401 Unauthorized"),
     Error("TransportServerError", Unauthorized, "Server Error"),
     Error("TransportServerError", 500, "Server Error"),
     Error("TransportServerError", 500, "401 Unauthorized"),
     Error("TransportServerError", NoCode, "401 Unauthorized"),
     Error("Exception", Unauthorized, "401 Unauthorized"),
     Error("Exception", NoCode, "Server Error")}
LoginErrors ==
    {[type |-> "LoginFailedException", code |-> NoCode, msg |-> "Server Error"],
     [type |-> "TransportServerError", code |-> Unauthorized,
      msg |-> "401 Unauthorized"]}
NoError == [type |-> "none", code |-> NoCode, msg |-> ""]
ValidationError ==
    [type |-> "ValidationError", code |-> NoCode, msg |-> "invalid"]
KeyError == [type |-> "KeyError", code |-> NoCode, msg |-> "missing"]
ArgumentError == [type |-> "SystemExit", code |-> 2, msg |-> "usage"]
AssertionError == [type |-> "AssertionError", code |-> NoCode, msg |-> ""]

(***************************************************************************)
(* Sample responses of the remote service.  A record that lacks a field    *)
(* models a JSON object without that key.                                  *)
(***************************************************************************)
Has(row, f) == f \in DOMAIN row
HasAll(row, fs) == \A f \in fs : Has(row, f)

\* Numbers of a response are Python floats and ints (parsed JSON numbers).  A
\* number is kept as the digits of its shortest decimal form: the value is
\* c * 10^e, and a float's c has no trailing zero.
Float(c, e) == [type |-> "float", c |-> c, e |-> e]
PyInt(c) == [type |-> "int", c |-> c, e |-> 0]
RECURSIVE Pow10(_)
Pow10(k) == IF k <= 0 THEN 1 ELSE 10 * Pow10(k - 1)
RECURSIVE Digits(_)
Digits(n) == IF n < 10 THEN 1 ELSE 1 + Digits(n \div 10)
NumDigits(c) == Digits(IF c < 0 THEN 0 - c ELSE c)

\* A numeric text.  In form "fixed" the digits of c are written with -e of
\* them after the point; in the forms "e" (float) and "E" (Decimal) the
\* digits of c are written with the point after the first one, followed by
\* the letter and the exponent e.
Text(form, c, e) == [form |-> form, c |-> c, e |-> e]

\* str(value) of a float or an int
PyStr(v) ==
    IF v.type = "int"
    THEN Text("fixed", v.c, 0)
    ELSE LET decpt == NumDigits(v.c) + v.e
         IN  IF decpt <= 0 - 4 \/ decpt > 16
             THEN Text("e", v.c, decpt - 1)
             ELSE IF v.e >= 0
             THEN Text("fixed", v.c * Pow10(v.e + 1), 0 - 1)
             ELSE Text("fixed", v.c, v.e)

\* decimal.Decimal(text): coefficient and exponent, digits kept as written
DecimalOf ==
    [t \in [form : {"fixed", "e", "E"}, c : Int, e : Int] |->
        IF t.form = "fixed"
        THEN [c |-> t.c, e |-> t.e]
        ELSE [c |-> t.c, e |-> t.e - NumDigits(t.c) + 1]]

\* marshmallow.fields.Decimal deserializes value as decimal.Decimal(str(value))
LoadDecimal(v) == DecimalOf[PyStr(v)]

\* variant: a Decimal is always written in positional notation
DecimalStr_positional == [d \in [c : Int, e : Int] |-> Text("fixed", d.c, d.e)]

\* str(d) of a decimal.Decimal
DecimalStr ==
    [d \in [c : Int, e : Int] |->
        LET leftdigits == d.e + NumDigits(d.c)
        IN  IF d.e <= 0 /\ leftdigits > 0 - 6
            THEN Text("fixed", d.c, d.e)
            ELSE Text("E", d.c, leftdigits - 1)]

\* the characters of the numeric texts that occur
Lit ==
    (Text("fixed", 181171, 0 - 2) :> "1811.71")
    @@ (Text("fixed", 2500, 0 - 1) :> "250.0")
    @@ (Text("fixed", 250, 0) :> "250")
    @@ (Text("fixed", 90005, 0 - 1) :> "9000.5")
    @@ (Text("fixed", 10, 0 - 1) :> "1.0")
    @@ (Text("fixed", 0 - 1234, 0 - 2) :> "-12.34")
    @@ (Text("fixed", 0 - 9000, 0 - 1) :> "-900.0")
    @@ (Text("fixed", 50, 0 - 1) :> "5.0")
    @@ (Text("fixed", 35, 0 - 1) :> "3.5")
    @@ (Text("fixed", 10, 0) :> "10")
    @@ (Text("fixed", 7001, 0 - 1) :> "700.1")
    @@ (Text("fixed", 7150, 0 - 1) :> "715.0")
    @@ (Text("fixed", 2512, 0 - 1) :> "251.2")
    @@ (Text("fixed", 720, 0 - 1) :> "72.0")
    @@ (Text("fixed", 600, 0 - 1) :> "60.0")
    @@ (Text("e", 1, 0 - 7) :> "1e-07")
    @@ (Text("E", 1, 0 - 7) :> "1E-7")
    @@ (Text("e", 85, 0 - 7) :> "8.5e-07")
    @@ (Text("E", 85, 0 - 7) :> "8.5E-7")
    @@ (Text("e", 1, 0 - 5) :> "1e-05")
    @@ (Text("fixed", 1, 0 - 5) :> "0.00001")

\* updatedAt instants: timezone-aware datetimes of 2026, as the wall-clock
\* month, day and hour at a UTC offset given in hours
Instant(month, day, hour, offset) ==
    [month |-> month, day |-> day, hour |-> hour, offset |-> offset]
T_Afternoon == Instant(1, 12, 14, 0)
T_Night == Instant(1, 12, 3, 0)
T_Midnight == Instant(1, 11, 0, 0)
T_BeforeFive == Instant(1, 12, 4, 0)
T_Five == Instant(1, 12, 5, 0)
T_SummerThree == Instant(7, 12, 3, 0)
T_SummerFour == Instant(7, 12, 4, 0)
T_Tokyo == Instant(1, 12, 9, 9)
T_Pacific == Instant(1, 11, 22, 0 - 8)
Instants ==
    {T_Afternoon, T_Night, T_Midnight, T_BeforeFive, T_Five, T_SummerThree,
     T_SummerFour, T_Tokyo, T_Pacific}

\* datetime.isoformat(): the wall-clock time with its own offset
IsoFormat(u) ==
    CASE u = T_Afternoon -> "2026-01-12T14:28:13.637497+00:00"
      [] u = T_Night -> "2026-01-12T03:05:00+00:00"
      [] u = T_Midnight -> "2026-01-11T00:00:00+00:00"
      [] u = T_BeforeFive -> "2026-01-12T04:59:59+00:00"
      [] u = T_Five -> "2026-01-12T05:00:00+00:00"
      [] u = T_SummerThree -> "2026-07-12T03:59:59+00:00"
      [] u = T_SummerFour -> "2026-07-12T04:00:00+00:00"
      [] u = T_Tokyo -> "2026-01-12T09:30:00+09:00"
      [] u = T_Pacific -> "2026-01-11T22:00:00-08:00"
      [] OTHER -> "0001-01-01T00:00:00+00:00"
\* date.isoformat()
IsoDate(d) ==
    CASE d.month = 1 /\ d.day = 10 -> "2026-01-10"
      [] d.month = 1 /\ d.day = 11 -> "2026-01-11"
      [] d.month = 1 /\ d.day = 12 -> "2026-01-12"
      [] d.month = 1 /\ d.day = 13 -> "2026-01-13"
      [] d.month = 7 /\ d.day = 10 -> "2026-07-10"
      [] d.month = 7 /\ d.day = 11 -> "2026-07-11"
      [] d.month = 7 /\ d.day = 12 -> "2026-07-12"
      [] d.month = 7 /\ d.day = 13 -> "2026-07-13"
      [] OTHER -> "0001-01-01"
\* America/New_York: UTC-4 from April to October, UTC-5 from December to
\* February (the months of the changes are not sampled)
EasternOffset(month) == IF month \in 4..10 THEN 4 ELSE 5
\* the wall clock of u moved by h hours; the sampled days are away from the
\* ends of their month
Shift(u, h) ==
    [u EXCEPT !.day = @ + ((u.hour + h) \div 24), !.hour = (u.hour + h) % 24]
\* variant: the date of the timestamp as received
EasternDate_truncated(u) == [month |-> u.month, day |-> u.day]

\* updatedAt.astimezone(ZoneInfo("America/New_York")).date()
EasternDate(u) ==
    LET utc == Shift(u, 0 - u.offset)
        eastern == Shift(utc, 0 - EasternOffset(utc.month))
    IN  [month |-> eastern.month, day |-> eastern.day]

Checking ==
    [id |-> 1, displayName |-> "Checking", currentBalance |-> Float(181171, 0 - 2),
     holdingsCount |-> 0, updatedAt |-> T_Afternoon]
Brokerage ==
    [id |-> 2, displayName |-> "Brokerage", currentBalance |-> Float(25, 1),
     holdingsCount |-> 2, updatedAt |-> T_Night]
Retirement ==
    [id |-> 3, displayName |-> "Annuity", currentBalance |-> Float(90005, 0 - 1),
     holdingsCount |-> 1, updatedAt |-> T_Midnight]
AccountNoId ==
    [displayName |-> "Ghost", currentBalance |-> Float(1, 0),
     holdingsCount |-> 1, updatedAt |-> T_Afternoon]
RawAccounts == <<Brokerage, Checking, Retirement, AccountNoId>>
Malformed == [errors |-> "unexpected"]
AccountsResponses ==
    {[accounts |-> s] : s \in SubLists(RawAccounts, MaxAccounts)}
        \cup {Malformed}

Groceries ==
    [id |-> 10, name |-> "Groceries", group |-> [id |-> 100, name |-> "Food"]]
Rent ==
    [id |-> 11, name |-> "Rent", group |-> [id |-> 101, name |-> "Housing"]]
CategoryNoGroup == [id |-> 12, name |-> "Misc"]
RawCategories == <<Groceries, Rent, CategoryNoGroup>>
CategoriesResponses ==
    {[categories |-> s] : s \in SubLists(RawCategories, MaxCategories)}
        \cup {Malformed}

TxGroceries ==
    [id |-> 500, amount |-> Float(0 - 1234, 0 - 2), date |-> "2026-01-10", notes |-> "",
     merchant |-> [id |-> 7, name |-> "Market"],
     account |-> [id |-> 1, displayName |-> "Checking"],
     category |-> [id |-> 10, name |-> "Groceries"]]
TxRent ==
    [id |-> 501, amount |-> Float(0 - 9, 2), date |-> "2026-01-02",
     notes |-> "january",
     merchant |-> [id |-> 8, name |-> "Landlord"],
     account |-> [id |-> 1, displayName |-> "Checking"],
     category |-> [id |-> 11, name |-> "Rent"]]
TxNoId ==
    [amount |-> Float(5, 0), date |-> "2026-01-03", notes |-> "",
     merchant |-> [id |-> 7, name |-> "Market"],
     account |-> [id |-> 1, displayName |-> "Checking"],
     category |-> [id |-> 10, name |-> "Groceries"]]
RawTransactions == <<TxGroceries, TxRent, TxNoId>>
TransactionsResponses ==
    {[allTransactions |-> [results |-> s]] :
        s \in SubLists(RawTransactions, MaxTransactions)}
        \cup {Malformed}

EdgeVTI ==
    [node |-> [id |-> 900, quantity |-> Float(35, 0 - 1), basis |-> Float(7001, 0 - 1),
               security |-> [id |-> 90, ticker |-> "VTI",
                             currentPrice |-> Float(2512, 0 - 1)]]]
EdgeNoQuantity ==
    [node |-> [id |-> 901, basis |-> Float(1, 0),
               security |-> [id |-> 91, ticker |-> "VXUS",
                             currentPrice |-> Float(6, 1)]]]
EdgeBND ==
    [node |-> [id |-> 902, quantity |-> PyInt(10), basis |-> Float(715, 0),
               security |-> [id |-> 92, ticker |-> "BND",
                             currentPrice |-> Float(72, 0)]]]
RawEdges == <<EdgeVTI, EdgeBND, EdgeNoQuantity>>
HoldingsResponses ==
    {[portfolio |-> [aggregateHoldings |-> [edges |-> s]]] :
        s \in SubLists(RawEdges, MaxHoldings)}
        \cup {Malformed}

Responses(name) ==
    CASE name = "get_accounts" -> AccountsResponses
      [] name = "get_categories" -> CategoriesResponses
      [] name = "get_transactions" -> TransactionsResponses
      [] OTHER -> HoldingsResponses

(***************************************************************************)
(* Response mapper.  A load either fails as a whole or yields the rows of  *)
(* every element, in input order.                                          *)
(***************************************************************************)
Str(i) ==
    CASE i = 10 -> "10"
      [] i = 11 -> "11"
      [] i = 12 -> "12"
      [] OTHER -> "0"

\* class Account
Account(row) ==
    [id |-> row.id, account |-> row.displayName,
     balance |-> LoadDecimal(row.currentBalance), holdingsCount |-> row.holdingsCount,
     datetime |-> IsoFormat(row.updatedAt),
     date_eastern |-> IsoDate(EasternDate(row.updatedAt))]

AccountFields ==
    {"id", "displayName", "currentBalance", "holdingsCount", "updatedAt"}

\* AccountsQuerySchema().load: ok is FALSE when the load raises
AccountsLoadOk(resp) ==
    /\ Has(resp, "accounts")
    /\ \A i \in DOMAIN resp.accounts : HasAll(resp.accounts[i], AccountFields)
AccountsLoad(resp) ==
    [i \in DOMAIN resp.accounts |-> Account(resp.accounts[i])]

\* CategoryQuerySchema().load and its post_load make_map
CategoriesLoadOk(resp) ==
    /\ Has(resp, "categories")
    /\ \A i \in DOMAIN resp.categories :
          /\ HasAll(resp.categories[i], {"id", "group"})
          /\ Has(resp.categories[i].group, "name")
\* variant: the first category with an identifier keeps its entry
LastWithId_first(cats, k) ==
    CHOOSE i \in DOMAIN cats :
        /\ Str(cats[i].id) = k
        /\ \A j \in DOMAIN cats : Str(cats[j].id) = k => i <= j

LastWithId(cats, k) ==
    CHOOSE i \in DOMAIN cats :
        /\ Str(cats[i].id) = k
        /\ \A j \in DOMAIN cats : Str(cats[j].id) = k => j <= i
make_map(resp) ==
    [k \in {Str(resp.categories[i].id) : i \in DOMAIN resp.categories} |->
        resp.categories[LastWithId(resp.categories, k)].group.name]

\* variant: the group is taken from the category's own name
Transaction_group_is_category(row, cm) ==
    [date |-> row.date, merchant |-> row.merchant.name,
     category |-> row.category.name, group |-> row.category.name,
     account |-> row.account.displayName, notes |-> row.notes,
     amount |-> LoadDecimal(row.amount)]

\* class Transaction
Transaction(row, cm) ==
    [date |-> row.date, merchant |-> row.merchant.name,
     category |-> row.category.name, group |-> cm[Str(row.category.id)],
     account |-> row.account.displayName, notes |-> row.notes,
     amount |-> LoadDecimal(row.amount)]

TransactionFields ==
    {"id", "amount", "date", "notes", "merchant", "account", "category"}

\* TransactionsQuerySchema().load under the category context
TransactionsLoadOk(resp, cm) ==
    /\ Has(resp, "allTransactions")
    /\ \A i \in DOMAIN resp.allTransactions.results :
          LET t == resp.allTransactions.results[i] IN
          /\ HasAll(t, TransactionFields)
          /\ HasAll(t.merchant, {"id", "name"})
          /\ HasAll(t.category, {"id", "name"})
          /\ HasAll(t.account, {"id", "displayName"})
          /\ Str(t.category.id) \in DOMAIN cm
TransactionsLoad(resp, cm) ==
    [i \in DOMAIN resp.allTransactions.results |->
        Transaction(resp.allTransactions.results[i], cm)]

\* class Holding; account is None until the caller backfills it
NoAccount == ""
Holding(row) ==
    [account |-> NoAccount, ticker |-> row.node.security.ticker,
     shares |-> Lit[DecimalStr[LoadDecimal(row.node.quantity)]],
     price |-> Lit[DecimalStr[LoadDecimal(row.node.security.currentPrice)]],
     cost |-> Lit[DecimalStr[LoadDecimal(row.node.basis)]]]

\* HoldingsQuerySchema().load
HoldingsLoadOk(resp) ==
    /\ Has(resp, "portfolio")
    /\ \A i \in DOMAIN resp.portfolio.aggregateHoldings.edges :
          LET n == resp.portfolio.aggregateHoldings.edges[i].node IN
          /\ HasAll(n, {"id", "quantity", "basis", "security"})
          /\ HasAll(n.security, {"id", "ticker", "currentPrice"})
HoldingsLoad(resp) ==
    [i \in DOMAIN resp.portfolio.aggregateHoldings.edges |->
        Holding(resp.portfolio.aggregateHoldings.edges[i])]

(***************************************************************************)
(* CSV rows: csv.DictWriter with fixed fieldnames; the writer writes       *)
(* str(value) of a value that is not a string.                             *)
(***************************************************************************)
BalanceRow(a) ==
    <<a.account, Lit[DecimalStr[a.balance]], a.date_eastern, a.datetime>>
TransactionRow(t) ==
    <<t.date, t.merchant, t.category, t.group, t.account, t.notes,
      Lit[DecimalStr[t.amount]]>>
PortfolioRow(h) == <<h.account, h.ticker, h.shares, h.price, h.cost>>

(***************************************************************************)
(* State.                                                                  *)
(***************************************************************************)
VARIABLES
    driver,          \* "none", "main" (the main coroutine) or "caller" (code using a Monarch instance directly)
    pc,              \* position of the driver / of the running report
    calls,           \* operations the direct caller has invoked
    retry_delay,     \* Monarch.retry_delay
    mm,              \* Monarch.mm: identity of the client instance held
    nClients,        \* client instances constructed so far
    nLogin,          \* invocations of Monarch.login
    inflight,        \* the outbound call that has been issued and not yet returned
    wpc,             \* position inside the tenacity wrapper of the current fetch
    op,              \* the wrapped fetch in progress: name and argument
    oplog,           \* what happened inside the current wrapped fetch, in order
    upcoming_sleep,  \* tenacity's retry_state.upcoming_sleep
    opres,           \* value the wrapped fetch returned to its caller
    nAttempts,       \* attempts of underlying fetches
    nOps,            \* wrapped fetches invoked
    raised,          \* error that propagated out of the operation
    report,          \* report being produced
    accounts_query,  \* list returned by report_balances
    catmap,          \* category lookup of report_transactions
    loaded_data,     \* loaded_data of the running report
    all_holdings,    \* all_holdings of report_portfolio
    idx,             \* position of report_portfolio's loop in accounts_query
    fs,              \* the files on disk
    opened,          \* files opened since the current report began
    fs0,             \* the files as they were initially
    fsAtStart,       \* the files as they were when the current report began
    fsAtDone,        \* each file as it was when the report writing it last completed
    lastFailed,      \* the report that raised
    reportsStarted,  \* reports begun, in order
    reportsDone,     \* reports completed, in order
    balRuns,         \* account lists of the completed balances reports, in order
    argv,            \* argument_list that main was started with
    held,            \* latest report_portfolio: per fetched account, its loaded holdings
    rejected         \* clients that have returned an unauthorized error

cfgVars == <<driver, retry_delay, argv>>
clientVars == <<mm, nClients, nLogin>>
wrapVars == <<op, oplog, upcoming_sleep, opres>>
countVars == <<nAttempts, nOps>>
localVars == <<catmap, loaded_data, all_holdings, idx>>
fileVars == <<fs, opened, fsAtStart>>
snapVars == <<fs0, fsAtDone, balRuns>>
progressVars == <<report, lastFailed, reportsStarted, reportsDone>>
vars ==
    <<cfgVars, clientVars, wrapVars, countVars, localVars, fileVars, snapVars,
      progressVars, pc, calls, inflight, wpc, raised, accounts_query, held,
      rejected>>

NoCall == [call |-> "none", client |-> 0, saved |-> FALSE, arg |-> 0]
NoOp == [name |-> "none", arg |-> 0]
NoVal == <<>>
Event(ev, client, saved, ok, err, d, val) ==
    [ev |-> ev, client |-> client, saved |-> saved, ok |-> ok, err |-> err,
     d |-> d, val |-> val]

File(rows) == [exists |-> TRUE, rows |-> rows]
Absent == [exists |-> FALSE, rows |-> <<>>]
OldBalanceRow == <<"Savings", "10.00", "2025-12-31", "2025-12-31T12:00:00+00:00">>
OldTransactionRow ==
    <<"2025-12-30", "Cafe", "Dining", "Food", "Checking", "", "-4.50">>
OldPortfolioRow == <<"Old Broker", "SPY", "1", "600.00", "500.00">>
InitialFiles ==
    {[f \in Files |-> Absent],
     [f \in Files |-> File(<<>>)],
     [f \in Files |->
        CASE f = FN_TX_REPORT -> File(<<TRANSACTIONS_HEADER, OldTransactionRow>>)
          [] f = FN_PORTFOLIO_REPORT ->
                File(<<PORTFOLIO_HEADER, OldPortfolioRow>>)
          [] OTHER -> File(<<BALANCES_HEADER, OldBalanceRow>>)]}

Init ==
    /\ driver = "none"
    /\ pc = "start"
    /\ calls = 0
    /\ retry_delay = RETRY_DELAY
    /\ mm = 0
    /\ nClients = 0
    /\ nLogin = 0
    /\ inflight = NoCall
    /\ wpc = "none"
    /\ op = NoOp
    /\ oplog = <<>>
    /\ upcoming_sleep = 0
    /\ opres = NoVal
    /\ nAttempts = 0
    /\ nOps = 0
    /\ raised = NoError
    /\ report = "none"
    /\ accounts_query = <<>>
    /\ catmap = <<>>
    /\ loaded_data = <<>>
    /\ all_holdings = <<>>
    /\ idx = 0
    /\ fs \in InitialFiles
    /\ opened = {}
    /\ fs0 = fs
    /\ fsAtStart = fs
    /\ fsAtDone = fs
    /\ lastFailed = "none"
    /\ reportsStarted = <<>>
    /\ reportsDone = <<>>
    /\ balRuns = <<>>
    /\ argv = <<>>
    /\ held = <<>>
    /\ rejected = {}

(***************************************************************************)
(* Exceptions propagate: nothing in Monarch or main catches one.  In main  *)
(* the run ends; a direct caller gets the exception.                       *)
(***************************************************************************)
\* the client of a call that ended with a transport-server error of code 401
IsUnauthorizedError(e) ==
    e.type = "TransportServerError" /\ e.code = Unauthorized
RejectedBy(event) ==
    IF ~event.ok /\ IsUnauthorizedError(event.err) THEN {event.client} ELSE {}

\* variant: main goes on with the next report after a failure
Raise_swallowed(e, w) ==
    /\ raised' = e
    /\ pc' = IF driver = "main"
             THEN CASE report = "none" -> "call_report_balances"
                    [] report = "balances" -> "call_report_transactions"
                    [] report = "transactions" -> "call_report_portfolio"
                    [] OTHER -> "terminated"
             ELSE "raised"
    /\ wpc' = w
    /\ inflight' = NoCall
    /\ lastFailed' = report
    /\ report' = "none"
    /\ UNCHANGED <<reportsStarted, reportsDone>>

Raise(e, w) ==
    /\ raised' = e
    /\ pc' = IF driver = "main" THEN "terminated" ELSE "raised"
    /\ wpc' = w
    /\ inflight' = NoCall
    /\ lastFailed' = report
    /\ report' = "none"
    /\ UNCHANGED <<reportsStarted, reportsDone>>

\* the frame of a wrapped fetch is gone once its result has been taken
WrapperDone ==
    /\ wpc' = "none"
    /\ op' = NoOp
    /\ oplog' = <<>>
    /\ upcoming_sleep' = 0
    /\ opres' = NoVal

ReportFiles(r) ==
    CASE r = "balances" -> {FN_BALANCE_REPORT, FN_BALANCE_HISTORY_REPORT}
      [] r = "transactions" -> {FN_TX_REPORT}
      [] r = "portfolio" -> {FN_PORTFOLIO_REPORT}
      [] OTHER -> {}

\* variant: main calls report_portfolio before report_transactions
AfterReport_portfolio_first(r) ==
    CASE r = "balances" -> "call_report_portfolio"
      [] r = "portfolio" -> "call_report_transactions"
      [] OTHER -> "done"

\* main: report_balances, then report_transactions, then report_portfolio
AfterReport(r) ==
    CASE r = "balances" -> "call_report_transactions"
      [] r = "transactions" -> "call_report_portfolio"
      [] OTHER -> "done"

\* a report returns to whoever called it; its locals are gone
ReportReturns(r) ==
    /\ pc' = IF driver = "main" THEN AfterReport(r) ELSE "idle"
    /\ report' = "none"
    /\ reportsDone' = Append(reportsDone, r)
    /\ catmap' = <<>>
    /\ loaded_data' = <<>>
    /\ all_holdings' = <<>>
    /\ idx' = 0
    /\ opened' = {}
    /\ fsAtStart' = fs'
    /\ fsAtDone' = [f \in Files |->
                      IF f \in ReportFiles(r) THEN fs'[f] ELSE fsAtDone[f]]
    /\ UNCHANGED <<lastFailed, reportsStarted>>

\* a report begins: called by main at `at`, or by the direct caller
ReportBegins(r, at) ==
    /\ \/ driver = "main" /\ pc = at /\ calls' = calls
       \/ driver = "caller" /\ pc = "idle" /\ calls < MaxCalls
             /\ calls' = calls + 1
    /\ report' = r
    /\ reportsStarted' = Append(reportsStarted, r)
    /\ fsAtStart' = fs
    /\ opened' = {}
    /\ UNCHANGED <<reportsDone, lastFailed, raised, fs, snapVars>>

\* invoke a tenacity-wrapped fetch
CallWrapped(name, arg) ==
    /\ op' = [name |-> name, arg |-> arg]
    /\ oplog' = <<>>
    /\ wpc' = "attempt"
    /\ nOps' = nOps + 1
    /\ UNCHANGED <<upcoming_sleep, opres, nAttempts>>

(***************************************************************************)
(* Monarch.__init__, Monarch._init_mm, Monarch.login                       *)
(***************************************************************************)
Flags == {"username", "password", "token"}
ArgumentLists == UNION {[S -> {"", "secret"}] : S \in SUBSET Flags}

\* variant: every login replaces the client
FreshClient_always(use_saved_session) == TRUE

\* variant: login never replaces the client
FreshClient_never(use_saved_session) == FALSE

\* login: a login that may not use the saved session first replaces the client
FreshClient(use_saved_session) == ~use_saved_session

LoginClient(use_saved_session) ==
    IF FreshClient(use_saved_session) THEN nClients + 1 ELSE mm

LoginIssue(use_saved_session) ==
    /\ mm' = LoginClient(use_saved_session)
    /\ nClients' = IF FreshClient(use_saved_session)
                   THEN nClients + 1 ELSE nClients
    /\ nLogin' = nLogin + 1
    /\ inflight' = [call |-> "login", client |-> mm',
                    saved |-> use_saved_session, arg |-> 0]

\* variant: --token is optional and unchecked
parse_args_token_optional(argument_list) ==
    IF ~({"username", "password"} \subseteq DOMAIN argument_list)
    THEN ArgumentError
    ELSE IF \E f \in {"username", "password"} : argument_list[f] = ""
    THEN AssertionError
    ELSE NoError

\* parser.parse_args exits when a required flag is missing; the assertions
\* that follow reject a blank one
parse_args(argument_list) ==
    IF DOMAIN argument_list # Flags
    THEN ArgumentError
    ELSE IF \E f \in Flags : argument_list[f] = ""
    THEN AssertionError
    ELSE NoError

\* main: parse_args, the assertions, Monarch(...); m.login() comes next
main_start ==
    /\ pc = "start"
    /\ \E argument_list \in ArgumentLists :
          /\ driver' = "main"
          /\ argv' = argument_list
          /\ IF parse_args(argument_list) # NoError
             THEN /\ raised' = parse_args(argument_list)
                  /\ pc' = "terminated"
                  /\ UNCHANGED <<mm, nClients>>
             ELSE /\ raised' = NoError
                  /\ pc' = "call_login"
                  /\ mm' = nClients + 1
                  /\ nClients' = nClients + 1
    /\ retry_delay' = RETRY_DELAY
    /\ UNCHANGED <<held, rejected>>
    /\ UNCHANGED <<nLogin, wrapVars, countVars, localVars, fileVars, snapVars,
                   progressVars, calls, inflight, wpc, accounts_query>>

\* code that constructs a Monarch itself chooses retry_delay
RetryDelays == {0, 5}

caller_construct ==
    /\ pc = "start"
    /\ driver' = "caller"
    /\ argv' = argv
    /\ \E d \in RetryDelays : retry_delay' = d
    /\ mm' = nClients + 1
    /\ nClients' = nClients + 1
    /\ pc' = "idle"
    /\ UNCHANGED <<held, rejected>>
    /\ UNCHANGED <<nLogin, wrapVars, countVars, localVars, fileVars, snapVars,
                   progressVars, calls, inflight, wpc, raised, accounts_query>>

\* variant: the login of main does not use the saved session
login_forced ==
    /\ pc = "call_login"
    /\ LoginIssue(FALSE)
    /\ pc' = "await_login"
    /\ UNCHANGED <<held, rejected>>
    /\ UNCHANGED <<cfgVars, wrapVars, countVars, localVars, fileVars, snapVars,
                   progressVars, calls, wpc, raised, accounts_query>>

\* await m.login(): use_saved_session defaults to True
login ==
    /\ pc = "call_login"
    /\ LoginIssue(TRUE)
    /\ pc' = "await_login"
    /\ UNCHANGED <<held, rejected>>
    /\ UNCHANGED <<cfgVars, wrapVars, countVars, localVars, fileVars, snapVars,
                   progressVars, calls, wpc, raised, accounts_query>>

\* mm.login returns to a login that no wrapper issued
login_returns ==
    /\ pc = "await_login"
    /\ inflight.call = "login"
    /\ inflight' = NoCall
    /\ pc' = "call_report_balances"
    /\ UNCHANGED <<held, rejected>>
    /\ UNCHANGED <<cfgVars, clientVars, wrapVars, countVars, localVars,
                   fileVars, snapVars, progressVars, calls, wpc, raised,
                   accounts_query>>

login_raises ==
    /\ pc = "await_login"
    /\ inflight.call = "login"
    /\ \E e \in LoginErrors : Raise(e, wpc)
    /\ UNCHANGED held
    /\ rejected' = rejected \cup
          (IF IsUnauthorizedError(raised') THEN {inflight.client} ELSE {})
    /\ UNCHANGED <<cfgVars, clientVars, wrapVars, countVars, localVars,
                   fileVars, snapVars, calls, accounts_query>>

(***************************************************************************)
(* The tenacity wrapper of get_accounts, get_categories, get_transactions  *)
(* and get_holdings: retry_if_exception_type(TransportServerError) &       *)
(* retry_if_exception(is_exception_401), stop_after_attempt(2),            *)
(* wait=wait_from_instance, before_sleep=login_before_sleep, reraise=True. *)
(***************************************************************************)
attempt_number == Cardinality({i \in DOMAIN oplog : oplog[i].ev = "attempt"})

\* variant: every code counts as unauthorized
is_exception_401_any(exception) == TRUE

\* variant: the unauthorized condition is read from the message
is_exception_401_message(exception) == exception.msg = "401 Unauthorized"

is_exception_401(exception) == exception.code = Unauthorized

retry_if_exception_type(exception) == exception.type = "TransportServerError"

ShouldRetry(exception) ==
    retry_if_exception_type(exception) /\ is_exception_401(exception)

\* variant: one attempt more
stop_after_attempt_three(n) == n >= StopAfterAttempt + 1

\* variant: one retry for the whole run
stop_after_attempt_shared(n) == n >= StopAfterAttempt \/ nLogin > 1

stop_after_attempt(n) == n >= StopAfterAttempt

\* variant: the wait is the module constant
wait_from_instance_fixed == RETRY_DELAY

wait_from_instance == retry_delay

\* variant: the caller gets the exception of the first attempt
reraise_first(log) == log[2].err

\* reraise=True: the caller gets the exception of the last attempt
reraise(log) == log[Len(log)].err

\* the wrapped method body: self.mm.<fetch>(...) is sent on the held client
attempt_issue ==
    /\ wpc = "attempt"
    /\ inflight' = [call |-> op.name, client |-> mm, saved |-> FALSE,
                    arg |-> op.arg]
    /\ oplog' = Append(oplog, Event("attempt", mm, FALSE, FALSE, NoError, 0,
                                    NoVal))
    /\ nAttempts' = nAttempts + 1
    /\ wpc' = "await"
    /\ UNCHANGED <<held, rejected>>
    /\ UNCHANGED <<cfgVars, clientVars, localVars, fileVars, snapVars,
                   progressVars, pc, calls, raised, op, upcoming_sleep,
                   opres, nOps, accounts_query>>

\* the fetch returns a response: the wrapper returns it
attempt_returns ==
    /\ wpc = "await"
    /\ \E response \in Responses(op.name) :
          /\ oplog' = Append(oplog, Event("result", inflight.client, FALSE,
                                          TRUE, NoError, 0, response))
          /\ opres' = response
    /\ inflight' = NoCall
    /\ wpc' = "returned"
    /\ UNCHANGED <<held, rejected>>
    /\ UNCHANGED <<cfgVars, clientVars, countVars, localVars, fileVars,
                   snapVars, progressVars, pc, calls, raised, op,
                   upcoming_sleep, accounts_query>>

\* the fetch raises: retry, or let the exception out
attempt_raises ==
    /\ wpc = "await"
    /\ \E e \in Errors :
          LET log == Append(oplog, Event("result", inflight.client, FALSE,
                                         FALSE, e, 0, NoVal))
          IN  /\ oplog' = log
              /\ IF ShouldRetry(e) /\ ~stop_after_attempt(attempt_number)
                 THEN /\ upcoming_sleep' = wait_from_instance
                      /\ wpc' = "before_sleep"
                      /\ inflight' = NoCall
                      /\ UNCHANGED <<pc, raised, progressVars>>
                 ELSE /\ Raise(reraise(log), "raised")
                      /\ UNCHANGED upcoming_sleep
    /\ UNCHANGED held
    /\ rejected' = rejected \cup RejectedBy(oplog'[Len(oplog')])
    /\ UNCHANGED <<cfgVars, clientVars, countVars, localVars, fileVars,
                   snapVars, calls, op, opres, accounts_query>>

\* variant: before_sleep starts the login and does not await it
login_before_sleep_unawaited ==
    /\ wpc = "before_sleep"
    /\ LoginIssue(FALSE)
    /\ oplog' = oplog
          \o (IF mm' # mm
              THEN <<Event("init_mm", mm', FALSE, FALSE, NoError, 0, NoVal)>>
              ELSE <<>>)
          \o <<Event("login", inflight'.client, inflight'.saved, FALSE,
                      NoError, 0, NoVal)>>
    /\ wpc' = "sleep"
    /\ UNCHANGED <<held, rejected>>
    /\ UNCHANGED <<cfgVars, countVars, localVars, fileVars, snapVars,
                   progressVars, pc, calls, raised, op, upcoming_sleep, opres,
                   accounts_query>>

\* variant: before_sleep does not log in
login_before_sleep_skipped ==
    /\ wpc = "before_sleep"
    /\ wpc' = "sleep"
    /\ UNCHANGED <<held, rejected>>
    /\ UNCHANGED <<cfgVars, clientVars, wrapVars, countVars, localVars,
                   fileVars, snapVars, progressVars, pc, calls, raised,
                   inflight, accounts_query>>

\* before_sleep: instance.login(False)
login_before_sleep ==
    /\ wpc = "before_sleep"
    /\ LoginIssue(FALSE)
    /\ oplog' = oplog
          \o (IF mm' # mm
              THEN <<Event("init_mm", mm', FALSE, FALSE, NoError, 0, NoVal)>>
              ELSE <<>>)
          \o <<Event("login", inflight'.client, inflight'.saved, FALSE,
                      NoError, 0, NoVal)>>
    /\ wpc' = "await_login"
    /\ UNCHANGED <<held, rejected>>
    /\ UNCHANGED <<cfgVars, countVars, localVars, fileVars, snapVars,
                   progressVars, pc, calls, raised, op, upcoming_sleep, opres,
                   accounts_query>>

relogin_returns ==
    /\ wpc = "await_login"
    /\ inflight.call = "login"
    /\ oplog' = Append(oplog, Event("login_result", inflight.client, FALSE,
                                    TRUE, NoError, 0, NoVal))
    /\ inflight' = NoCall
    /\ wpc' = "sleep"
    /\ UNCHANGED <<held, rejected>>
    /\ UNCHANGED <<cfgVars, clientVars, countVars, localVars, fileVars,
                   snapVars, progressVars, pc, calls, raised, op,
                   upcoming_sleep, opres, accounts_query>>

\* variant: a failed re-login is ignored and the wrapper goes on to wait
relogin_raises_ignored ==
    /\ wpc = "await_login"
    /\ inflight.call = "login"
    /\ \E e \in LoginErrors :
          oplog' = Append(oplog, Event("login_result", inflight.client,
                                       FALSE, FALSE, e, 0, NoVal))
    /\ inflight' = NoCall
    /\ wpc' = "sleep"
    /\ UNCHANGED <<held, rejected>>
    /\ UNCHANGED <<cfgVars, clientVars, countVars, localVars, fileVars,
                   snapVars, progressVars, pc, calls, raised, op,
                   upcoming_sleep, opres, accounts_query>>

\* an exception of before_sleep leaves the wrapper as it is
relogin_raises ==
    /\ wpc = "await_login"
    /\ inflight.call = "login"
    /\ \E e \in LoginErrors :
          /\ oplog' = Append(oplog, Event("login_result", inflight.client,
                                          FALSE, FALSE, e, 0, NoVal))
          /\ Raise(e, "raised")
    /\ UNCHANGED held
    /\ rejected' = rejected \cup RejectedBy(oplog'[Len(oplog')])
    /\ UNCHANGED <<cfgVars, clientVars, countVars, localVars, fileVars,
                   snapVars, calls, op, upcoming_sleep, opres,
                   accounts_query>>

\* variant: the wait never ends
sleep_forever ==
    /\ wpc = "sleep"
    /\ UNCHANGED vars

\* tenacity sleeps upcoming_sleep, then attempts again
sleep ==
    /\ wpc = "sleep"
    /\ oplog' = Append(oplog, Event("sleep", mm, FALSE, FALSE, NoError,
                                    upcoming_sleep, NoVal))
    /\ wpc' = "attempt"
    /\ UNCHANGED <<held, rejected>>
    /\ UNCHANGED <<cfgVars, clientVars, countVars, localVars, fileVars,
                   snapVars, progressVars, pc, calls, raised, inflight, op,
                   upcoming_sleep, opres, accounts_query>>

(***************************************************************************)
(* Files: open(..., mode="w") truncates, open(..., mode="a") appends.      *)
(***************************************************************************)
RowsOf(items, Row(_)) == [i \in DOMAIN items |-> Row(items[i])]

\* variant: the file is opened for append
Overwrite_append(files, f, header, rows) ==
    [files EXCEPT ![f] =
        File((IF files[f].exists THEN files[f].rows ELSE <<>>)
                \o <<header>> \o rows)]

Overwrite(files, f, header, rows) ==
    [files EXCEPT ![f] = File(<<header>> \o rows)]

\* variant: the header is written on every append
AtStart_always(content) == TRUE

\* f.tell() == 0 right after opening for append
AtStart(content) == Len(content) = 0

AppendTo(files, f, header, rows) ==
    LET content == IF files[f].exists THEN files[f].rows ELSE <<>>
    IN  [files EXCEPT ![f] =
            File(content \o (IF AtStart(content) THEN <<header>> ELSE <<>>)
                         \o rows)]

\* which exception a failing load raises
AccountsLoadError(resp) ==
    IF Has(resp, "accounts")
          /\ \E i \in DOMAIN resp.accounts : ~Has(resp.accounts[i], "id")
    THEN ValidationError ELSE KeyError
CategoriesLoadError(resp) ==
    IF Has(resp, "categories")
          /\ \E i \in DOMAIN resp.categories : ~Has(resp.categories[i], "id")
    THEN ValidationError ELSE KeyError
TransactionsLoadError(resp) ==
    IF Has(resp, "allTransactions")
          /\ \E i \in DOMAIN resp.allTransactions.results :
                ~Has(resp.allTransactions.results[i], "id")
    THEN ValidationError ELSE KeyError
HoldingsLoadError(resp) ==
    IF Has(resp, "portfolio")
          /\ \E i \in DOMAIN resp.portfolio.aggregateHoldings.edges :
                ~Has(resp.portfolio.aggregateHoldings.edges[i].node, "id")
    THEN ValidationError ELSE KeyError

(***************************************************************************)
(* report_balances                                                         *)
(***************************************************************************)
report_balances ==
    /\ ReportBegins("balances", "call_report_balances")
    /\ CallWrapped("get_accounts", 0)
    /\ pc' = "bal_get"
    /\ UNCHANGED <<held, rejected>>
    /\ UNCHANGED <<cfgVars, clientVars, localVars, inflight, accounts_query>>

\* loaded_data = schema.load(accounts)
report_balances_load ==
    /\ pc = "bal_get"
    /\ wpc = "returned"
    /\ IF AccountsLoadOk(opres)
       THEN /\ loaded_data' = AccountsLoad(opres)
            /\ pc' = "bal_write"
            /\ WrapperDone
            /\ UNCHANGED <<raised, inflight, progressVars>>
       ELSE /\ Raise(AccountsLoadError(opres), "none")
            /\ UNCHANGED <<loaded_data, wrapVars>>
    /\ UNCHANGED <<held, rejected>>
    /\ UNCHANGED <<cfgVars, clientVars, countVars, fileVars, snapVars, calls,
                   accounts_query, catmap, all_holdings, idx>>

write_balances ==
    /\ pc = "bal_write"
    /\ fs' = Overwrite(fs, FN_BALANCE_REPORT, BALANCES_HEADER,
                       RowsOf(loaded_data, BalanceRow))
    /\ opened' = opened \cup {FN_BALANCE_REPORT}
    /\ pc' = "bal_write_history"
    /\ UNCHANGED <<held, rejected>>
    /\ UNCHANGED <<cfgVars, clientVars, wrapVars, countVars, localVars,
                   snapVars, progressVars, calls, inflight, wpc, raised,
                   fsAtStart, accounts_query>>

\* variant: the history rows are appended in reverse order
write_balances_history_reversed ==
    /\ pc = "bal_write_history"
    /\ fs' = AppendTo(fs, FN_BALANCE_HISTORY_REPORT, BALANCES_HEADER,
                      RowsOf([i \in DOMAIN loaded_data |->
                                 loaded_data[Len(loaded_data) + 1 - i]],
                             BalanceRow))
    /\ accounts_query' = loaded_data
    /\ balRuns' = Append(balRuns, loaded_data)
    /\ ReportReturns("balances")
    /\ UNCHANGED <<held, rejected>>
    /\ UNCHANGED <<cfgVars, clientVars, wrapVars, countVars, fs0, calls,
                   inflight, wpc, raised>>

\* write_balances_history, then report_balances returns loaded_data
write_balances_history ==
    /\ pc = "bal_write_history"
    /\ fs' = AppendTo(fs, FN_BALANCE_HISTORY_REPORT, BALANCES_HEADER,
                      RowsOf(loaded_data, BalanceRow))
    /\ accounts_query' = loaded_data
    /\ balRuns' = Append(balRuns, loaded_data)
    /\ ReportReturns("balances")
    /\ UNCHANGED <<held, rejected>>
    /\ UNCHANGED <<cfgVars, clientVars, wrapVars, countVars, fs0, calls,
                   inflight, wpc, raised>>

(***************************************************************************)
(* report_transactions                                                     *)
(***************************************************************************)
report_transactions ==
    /\ ReportBegins("transactions", "call_report_transactions")
    /\ CallWrapped("get_categories", 0)
    /\ pc' = "tx_get_categories"
    /\ UNCHANGED <<held, rejected>>
    /\ UNCHANGED <<cfgVars, clientVars, localVars, inflight, accounts_query>>

\* variant: a lookup that cannot be built is replaced by an empty one
report_transactions_catmap_lenient ==
    /\ pc = "tx_get_categories"
    /\ wpc = "returned"
    /\ catmap' = IF CategoriesLoadOk(opres) THEN make_map(opres) ELSE <<>>
    /\ op' = [name |-> "get_transactions", arg |-> 0]
    /\ oplog' = <<>>
    /\ opres' = NoVal
    /\ upcoming_sleep' = 0
    /\ wpc' = "attempt"
    /\ nOps' = nOps + 1
    /\ pc' = "tx_get_transactions"
    /\ UNCHANGED <<raised, inflight, progressVars, nAttempts>>
    /\ UNCHANGED <<held, rejected>>
    /\ UNCHANGED <<cfgVars, clientVars, fileVars, snapVars, calls,
                   accounts_query, loaded_data, all_holdings, idx>>

\* catmap = cqs.load(cats); txs = await self.get_transactions()
report_transactions_catmap ==
    /\ pc = "tx_get_categories"
    /\ wpc = "returned"
    /\ IF CategoriesLoadOk(opres)
       THEN /\ catmap' = make_map(opres)
            /\ op' = [name |-> "get_transactions", arg |-> 0]
            /\ oplog' = <<>>
            /\ opres' = NoVal
            /\ upcoming_sleep' = 0
            /\ wpc' = "attempt"
            /\ nOps' = nOps + 1
            /\ pc' = "tx_get_transactions"
            /\ UNCHANGED <<raised, inflight, progressVars, nAttempts>>
       ELSE /\ Raise(CategoriesLoadError(opres), "none")
            /\ UNCHANGED <<catmap, wrapVars, countVars>>
    /\ UNCHANGED <<held, rejected>>
    /\ UNCHANGED <<cfgVars, clientVars, fileVars, snapVars, calls,
                   accounts_query, loaded_data, all_holdings, idx>>

\* variant: transactions whose category is not in catmap are left out
report_transactions_load_partial ==
    /\ pc = "tx_get_transactions"
    /\ wpc = "returned"
    /\ IF Has(opres, "allTransactions")
          /\ \A i \in DOMAIN opres.allTransactions.results :
                HasAll(opres.allTransactions.results[i], TransactionFields)
       THEN /\ loaded_data' =
                  TransactionsLoad(
                      [allTransactions |-> [results |->
                          SelectSeq(opres.allTransactions.results,
                                    LAMBDA t : Str(t.category.id)
                                                  \in DOMAIN catmap)]],
                      catmap)
            /\ pc' = "tx_write"
            /\ WrapperDone
            /\ UNCHANGED <<raised, inflight, progressVars>>
       ELSE /\ Raise(TransactionsLoadError(opres), "none")
            /\ UNCHANGED <<loaded_data, wrapVars>>
    /\ UNCHANGED <<held, rejected>>
    /\ UNCHANGED <<cfgVars, clientVars, countVars, fileVars, snapVars, calls,
                   accounts_query, catmap, all_holdings, idx>>

\* loaded_data = schema.load(txs), with catmap as context
report_transactions_load ==
    /\ pc = "tx_get_transactions"
    /\ wpc = "returned"
    /\ IF TransactionsLoadOk(opres, catmap)
       THEN /\ loaded_data' = TransactionsLoad(opres, catmap)
            /\ pc' = "tx_write"
            /\ WrapperDone
            /\ UNCHANGED <<raised, inflight, progressVars>>
       ELSE /\ Raise(TransactionsLoadError(opres), "none")
            /\ UNCHANGED <<loaded_data, wrapVars>>
    /\ UNCHANGED <<held, rejected>>
    /\ UNCHANGED <<cfgVars, clientVars, countVars, fileVars, snapVars, calls,
                   accounts_query, catmap, all_holdings, idx>>

\* variant: the transactions report goes to the balances file
TransactionsFile_balances == FN_BALANCE_REPORT

TransactionsFile == FN_TX_REPORT

\* write_transactions, then report_transactions returns
write_transactions ==
    /\ pc = "tx_write"
    /\ fs' = Overwrite(fs, TransactionsFile, TRANSACTIONS_HEADER,
                       RowsOf(loaded_data, TransactionRow))
    /\ ReportReturns("transactions")
    /\ UNCHANGED <<held, rejected>>
    /\ UNCHANGED <<cfgVars, clientVars, wrapVars, countVars, fs0, balRuns,
                   calls, inflight, wpc, raised, accounts_query>>

(***************************************************************************)
(* report_portfolio(accounts_query)                                        *)
(***************************************************************************)
\* variant: the holding keeps its parse-time account
Backfill_none(x, account) == x

\* for x in holdings_query: x.account = account.account
Backfill(x, account) == [x EXCEPT !.account = account.account]

report_portfolio ==
    /\ ReportBegins("portfolio", "call_report_portfolio")
    /\ all_holdings' = <<>>
    /\ held' = <<>>
    /\ UNCHANGED rejected
    /\ idx' = 1
    /\ pc' = "pf_loop"
    /\ UNCHANGED <<cfgVars, clientVars, wrapVars, countVars, accounts_query,
                   catmap, loaded_data, inflight, wpc>>

\* variant: holdings are fetched for every account
report_portfolio_next_all ==
    /\ pc = "pf_loop"
    /\ IF idx > Len(accounts_query)
       THEN /\ pc' = "pf_write"
            /\ UNCHANGED <<idx, wrapVars, countVars, wpc>>
       ELSE /\ CallWrapped("get_holdings", accounts_query[idx].id)
            /\ pc' = "pf_get"
            /\ UNCHANGED idx
    /\ UNCHANGED <<held, rejected>>
    /\ UNCHANGED <<cfgVars, clientVars, fileVars, snapVars, progressVars,
                   calls, inflight, raised, accounts_query, catmap,
                   loaded_data, all_holdings>>

\* variant: the portfolio report fetches the accounts again
report_portfolio_next_refetch ==
    /\ pc = "pf_loop"
    /\ IF idx > Len(accounts_query)
       THEN /\ pc' = "pf_write"
            /\ UNCHANGED <<idx, wrapVars, countVars, wpc>>
       ELSE IF accounts_query[idx].holdingsCount > 0
       THEN /\ CallWrapped("get_accounts", 0)
            /\ pc' = "pf_get"
            /\ UNCHANGED idx
       ELSE /\ idx' = idx + 1
            /\ UNCHANGED <<pc, wrapVars, countVars, wpc>>
    /\ UNCHANGED <<held, rejected>>
    /\ UNCHANGED <<cfgVars, clientVars, fileVars, snapVars, progressVars,
                   calls, inflight, raised, accounts_query, catmap,
                   loaded_data, all_holdings>>

\* one turn of: for account in accounts_query
report_portfolio_next ==
    /\ pc = "pf_loop"
    /\ IF idx > Len(accounts_query)
       THEN /\ pc' = "pf_write"
            /\ UNCHANGED <<idx, wrapVars, countVars, wpc>>
       ELSE IF accounts_query[idx].holdingsCount > 0
       THEN /\ CallWrapped("get_holdings", accounts_query[idx].id)
            /\ pc' = "pf_get"
            /\ UNCHANGED idx
       ELSE /\ idx' = idx + 1
            /\ UNCHANGED <<pc, wrapVars, countVars, wpc>>
    /\ UNCHANGED <<held, rejected>>
    /\ UNCHANGED <<cfgVars, clientVars, fileVars, snapVars, progressVars,
                   calls, inflight, raised, accounts_query, catmap,
                   loaded_data, all_holdings>>

\* variant: the portfolio file is rewritten after every holdings fetch
report_portfolio_loaded_eager ==
    /\ pc = "pf_get"
    /\ wpc = "returned"
    /\ UNCHANGED rejected
    /\ IF HoldingsLoadOk(opres)
       THEN /\ all_holdings' = all_holdings \o
                  [i \in DOMAIN HoldingsLoad(opres) |->
                     Backfill(HoldingsLoad(opres)[i], accounts_query[idx])]
            /\ idx' = idx + 1
            /\ held' = Append(held, [account |-> accounts_query[idx].id,
                                      holdings |-> HoldingsLoad(opres)])
            /\ pc' = "pf_loop"
            /\ WrapperDone
            /\ fs' = Overwrite(fs, FN_PORTFOLIO_REPORT, PORTFOLIO_HEADER,
                               RowsOf(all_holdings', PortfolioRow))
            /\ opened' = opened \cup {FN_PORTFOLIO_REPORT}
            /\ UNCHANGED <<raised, inflight, progressVars, fsAtStart>>
       ELSE /\ Raise(HoldingsLoadError(opres), "none")
            /\ UNCHANGED <<all_holdings, idx, held, fileVars, wrapVars>>
    /\ UNCHANGED <<cfgVars, clientVars, countVars, snapVars, calls,
                   accounts_query, catmap, loaded_data>>

\* holdings_query = hqs.load(holdings); x.account = account.account; extend
report_portfolio_loaded ==
    /\ pc = "pf_get"
    /\ wpc = "returned"
    /\ UNCHANGED rejected
    /\ IF HoldingsLoadOk(opres)
       THEN /\ all_holdings' = all_holdings \o
                  [i \in DOMAIN HoldingsLoad(opres) |->
                     Backfill(HoldingsLoad(opres)[i], accounts_query[idx])]
            /\ idx' = idx + 1
            /\ held' = Append(held, [account |-> accounts_query[idx].id,
                                      holdings |-> HoldingsLoad(opres)])
            /\ pc' = "pf_loop"
            /\ WrapperDone
            /\ UNCHANGED <<raised, inflight, progressVars>>
       ELSE /\ Raise(HoldingsLoadError(opres), "none")
            /\ UNCHANGED <<all_holdings, idx, held, wrapVars>>
    /\ UNCHANGED <<cfgVars, clientVars, countVars, fileVars, snapVars, calls,
                   accounts_query, catmap, loaded_data>>

\* write_portfolio, then report_portfolio returns
write_portfolio ==
    /\ pc = "pf_write"
    /\ fs' = Overwrite(fs, FN_PORTFOLIO_REPORT, PORTFOLIO_HEADER,
                       RowsOf(all_holdings, PortfolioRow))
    /\ ReportReturns("portfolio")
    /\ UNCHANGED <<held, rejected>>
    /\ UNCHANGED <<cfgVars, clientVars, wrapVars, countVars, fs0, balRuns,
                   calls, inflight, wpc, raised, accounts_query>>

(***************************************************************************)
(* Specifications: a run of main, and direct use of a Monarch instance.    *)
(***************************************************************************)
Fetch ==
    \/ attempt_issue
    \/ attempt_returns
    \/ attempt_raises
    \/ login_before_sleep
    \/ relogin_returns
    \/ relogin_raises
    \/ sleep

Balances ==
    \/ report_balances
    \/ report_balances_load
    \/ write_balances
    \/ write_balances_history

Transactions ==
    \/ report_transactions
    \/ report_transactions_catmap
    \/ report_transactions_load
    \/ write_transactions

Portfolio ==
    \/ report_portfolio
    \/ report_portfolio_next
    \/ report_portfolio_loaded
    \/ write_portfolio

Logins ==
    \/ login
    \/ login_returns
    \/ login_raises

\* main: login, then the three reports
Next == main_start \/ Logins \/ Fetch \/ Balances \/ Transactions \/ Portfolio

Spec == Init /\ [][Next]_vars

\* an instance constructed with a retry_delay of the caller's choice, on which
\* report_balances and report_transactions are called, up to MaxCalls times
\* and until one raises
NextCaller == caller_construct \/ Fetch \/ Balances \/ Transactions

SpecCaller == Init /\ [][NextCaller]_vars

\* a run of main in which the event loop keeps running the coroutine and
\* every login and fetch that was sent eventually returns or raises
CallReturns ==
    \/ login_returns
    \/ login_raises
    \/ attempt_returns
    \/ attempt_raises
    \/ relogin_returns
    \/ relogin_raises
ProgramStep ==
    \/ main_start
    \/ login
    \/ attempt_issue
    \/ login_before_sleep
    \/ sleep
    \/ Balances
    \/ Transactions
    \/ Portfolio
SpecLive == Spec /\ WF_vars(ProgramStep) /\ WF_vars(CallReturns)

(***************************************************************************)
(* The response mapper used on its own, as the schema tests use it:        *)
(* <Schema>().load(data) on one input, with the category lookup as context *)
(* for transactions.                                                       *)
(***************************************************************************)
Lists(S, n) == UNION {[1..k -> S] : k \in 0..n}
Drop(row, f) == [g \in DOMAIN row \ {f} |-> row[g]]

\* a second category with the identifier of Groceries
Produce ==
    [id |-> 10, name |-> "Produce", group |-> [id |-> 102, name |-> "Fresh"]]
EdgeNoPrice ==
    [node |-> [EdgeVTI.node EXCEPT !.security = Drop(@, "currentPrice")]]
MapperAccounts ==
    {[Checking EXCEPT !.updatedAt = u] : u \in Instants}
        \cup {Brokerage}
        \cup {Drop(Checking, f) : f \in {"id", "currentBalance", "holdingsCount"}}
MapperCategories ==
    {Groceries, Rent, Produce, CategoryNoGroup, Drop(Rent, "id")}
MapperTransactions == {TxGroceries, TxRent, TxNoId, Drop(TxRent, "amount")}
\* a holding of a ten-millionth of a share, bought for a thousandth of a cent
EdgeSatoshi ==
    [node |-> [id |-> 903, quantity |-> Float(1, 0 - 7),
               basis |-> Float(1, 0 - 5),
               security |-> [id |-> 93, ticker |-> "BTC",
                             currentPrice |-> Float(72, 0)]]]
\* a holding of a token priced at 0.00000085
EdgeToken ==
    [node |-> [id |-> 904, quantity |-> PyInt(10), basis |-> Float(1, 0),
               security |-> [id |-> 94, ticker |-> "TKN",
                             currentPrice |-> Float(85, 0 - 8)]]]
MapperEdges ==
    {EdgeVTI, EdgeBND, EdgeNoQuantity, EdgeNoPrice, EdgeSatoshi, EdgeToken,
     [node |-> Drop(EdgeBND.node, "basis")]}
Lookups ==
    {make_map([categories |-> s]) : s \in Lists({Groceries, Rent, Produce}, MaxRows)}

MapperFrame ==
    /\ driver' = "mapper"
    /\ UNCHANGED <<retry_delay, argv, clientVars, countVars, fileVars,
                   snapVars, progressVars, calls, inflight, wpc,
                   upcoming_sleep, oplog, accounts_query, all_holdings, idx,
                   held, rejected>>

\* variant: the rows of the well-formed accounts are returned
load_accounts_partial ==
    /\ pc = "start"
    /\ \E s \in Lists(MapperAccounts, MaxRows) :
          LET resp == [accounts |-> s]
              good == SelectSeq(s, LAMBDA a : HasAll(a, AccountFields))
          IN  /\ op' = [name |-> "AccountsQuerySchema", arg |-> 0]
              /\ opres' = resp
              /\ loaded_data' = AccountsLoad([accounts |-> good])
              /\ raised' = NoError
              /\ pc' = "loaded"
    /\ UNCHANGED catmap
    /\ MapperFrame

\* AccountsQuerySchema().load(data)
load_accounts ==
    /\ pc = "start"
    /\ \E resp \in {[accounts |-> s] : s \in Lists(MapperAccounts, MaxRows)}
                    \cup {Malformed} :
          /\ op' = [name |-> "AccountsQuerySchema", arg |-> 0]
          /\ opres' = resp
          /\ IF AccountsLoadOk(resp)
             THEN /\ loaded_data' = AccountsLoad(resp)
                  /\ raised' = NoError
                  /\ pc' = "loaded"
             ELSE /\ loaded_data' = <<>>
                  /\ raised' = AccountsLoadError(resp)
                  /\ pc' = "raised"
    /\ UNCHANGED catmap
    /\ MapperFrame

\* CategoryQuerySchema().load(data)
load_categories ==
    /\ pc = "start"
    /\ \E resp \in {[categories |-> s] :
                        s \in Lists(MapperCategories, MaxRows)}
                    \cup {Malformed} :
          /\ op' = [name |-> "CategoryQuerySchema", arg |-> 0]
          /\ opres' = resp
          /\ IF CategoriesLoadOk(resp)
             THEN /\ catmap' = make_map(resp)
                  /\ raised' = NoError
                  /\ pc' = "loaded"
             ELSE /\ catmap' = <<>>
                  /\ raised' = CategoriesLoadError(resp)
                  /\ pc' = "raised"
    /\ UNCHANGED loaded_data
    /\ MapperFrame

\* with TransactionCategorySchemaContext({"catmap": catmap}):
\*     TransactionsQuerySchema().load(data)
load_transactions ==
    /\ pc = "start"
    /\ \E cm \in Lookups,
          resp \in {[allTransactions |-> [results |-> s]] :
                        s \in Lists(MapperTransactions, MaxRows)}
                    \cup {Malformed} :
          /\ op' = [name |-> "TransactionsQuerySchema", arg |-> 0]
          /\ opres' = resp
          /\ catmap' = cm
          /\ IF TransactionsLoadOk(resp, cm)
             THEN /\ loaded_data' = TransactionsLoad(resp, cm)
                  /\ raised' = NoError
                  /\ pc' = "loaded"
             ELSE /\ loaded_data' = <<>>
                  /\ raised' = TransactionsLoadError(resp)
                  /\ pc' = "raised"
    /\ MapperFrame

\* HoldingsQuerySchema().load(data)
load_holdings ==
    /\ pc = "start"
    /\ \E resp \in {[portfolio |-> [aggregateHoldings |-> [edges |-> s]]] :
                        s \in Lists(MapperEdges, MaxRows)}
                    \cup {Malformed} :
          /\ op' = [name |-> "HoldingsQuerySchema", arg |-> 0]
          /\ opres' = resp
          /\ IF HoldingsLoadOk(resp)
             THEN /\ loaded_data' = HoldingsLoad(resp)
                  /\ raised' = NoError
                  /\ pc' = "loaded"
             ELSE /\ loaded_data' = <<>>
                  /\ raised' = HoldingsLoadError(resp)
                  /\ pc' = "raised"
    /\ UNCHANGED catmap
    /\ MapperFrame

NextMapper ==
    \/ load_accounts
    \/ load_categories
    \/ load_transactions
    \/ load_holdings

SpecMapper == Init /\ [][NextMapper]_vars

(***************************************************************************)
(* Properties.                                                             *)
(***************************************************************************)
EventsOf(log, ev) == {i \in DOMAIN log : log[i].ev = ev}
CountOf(log, ev) == Cardinality(EventsOf(log, ev))

\* the unauthorized condition: a transport-server error with code 401
IsUnauthorized(e) == e.type = "TransportServerError" /\ e.code = 401

\* the first attempt of the current wrapped fetch failed, with/without 401
FirstAttemptFailed ==
    Len(oplog) >= 2 /\ oplog[2].ev = "result" /\ ~oplog[2].ok
FirstUnauthorized == FirstAttemptFailed /\ IsUnauthorized(oplog[2].err)
FirstOtherError == FirstAttemptFailed /\ ~IsUnauthorized(oplog[2].err)
OpEnded == wpc \in {"returned", "raised"}

\* C1: in every invocation of a wrapped fetch, whatever the outcomes of the
\* underlying call, that call is attempted at most 2 times and the forced
\* re-login is invoked at most once.
C1_AttemptCap ==
    /\ CountOf(oplog, "attempt") <= 2
    /\ CountOf(oplog, "login") <= 1
    /\ CountOf(oplog, "result") <= 2

\* a get_holdings that used both attempts and its re-login, and failed
C1_Witness ==
    /\ op.name = "get_holdings"
    /\ wpc = "raised"
    /\ CountOf(oplog, "attempt") = 2
    /\ CountOf(oplog, "login") = 1

\* C2: after a 401 on attempt 1 a new client is constructed before the
\* re-login is sent, the re-login has use_saved_session false, and both the
\* re-login and attempt 2 go to the new client, never to the one that
\* returned the 401.
C2_FreshClientOnRetry ==
    FirstUnauthorized =>
        /\ Len(oplog) >= 3 =>
              /\ oplog[3].ev = "init_mm"
              /\ oplog[3].client # oplog[1].client
              /\ oplog[3].client = nClients
        /\ \A i \in DOMAIN oplog :
              (i > 2 /\ oplog[i].ev \in {"login", "attempt"}) =>
                  /\ i > 3
                  /\ oplog[i].client = oplog[3].client
                  /\ oplog[i].client # oplog[1].client
        /\ \A i \in EventsOf(oplog, "login") : ~oplog[i].saved
        /\ (Len(oplog) >= 3 /\ inflight.call # "none") =>
              /\ inflight.client = oplog[3].client
              /\ inflight.client # oplog[1].client
              /\ (inflight.call = "login" => ~inflight.saved)

\* attempt 2 is in flight on the new client
C2_Witness ==
    /\ FirstUnauthorized
    /\ CountOf(oplog, "attempt") = 2
    /\ inflight.call = "get_transactions"
    /\ inflight.client = 2
    /\ oplog[1].client = 1

\* C3: when attempt 1 fails with an error that is not the unauthorized
\* condition, the operation ends after exactly 1 attempt, with no re-login
\* and no wait, and the caller gets that same error.
C3_OtherErrorNotRetried ==
    FirstOtherError =>
        /\ Len(oplog) = 2
        /\ wpc = "raised"
        /\ CountOf(oplog, "attempt") = 1
        /\ CountOf(oplog, "login") = 0
        /\ CountOf(oplog, "sleep") = 0
        /\ inflight = NoCall
        /\ raised = oplog[2].err

\* get_categories failed with a transport-server error of code 500
C3_Witness ==
    /\ op.name = "get_categories"
    /\ FirstOtherError
    /\ oplog[2].err.type = "TransportServerError"
    /\ oplog[2].err.code = 500
    /\ wpc = "raised"

\* C4: when attempt 1 fails with 401 and attempt 2 fails too, with any
\* error, exactly 2 attempts and exactly 1 re-login happened, nothing follows
\* the second failure, and the caller gets the error of attempt 2.
C4_SecondFailureIsFinal ==
    (FirstUnauthorized /\ CountOf(oplog, "result") = 2
                       /\ ~oplog[Len(oplog)].ok) =>
        /\ oplog[Len(oplog)].ev = "result"
        /\ Len(oplog) = 8
        /\ CountOf(oplog, "attempt") = 2
        /\ CountOf(oplog, "login") = 1
        /\ wpc = "raised"
        /\ inflight = NoCall
        /\ raised = oplog[8].err

\* get_transactions: two 401 errors with different messages
C4_Witness ==
    /\ op.name = "get_transactions"
    /\ FirstUnauthorized
    /\ Len(oplog) = 8
    /\ IsUnauthorized(oplog[8].err)
    /\ oplog[8].err # oplog[2].err
    /\ wpc = "raised"

\* C5: a wrapped fetch with outcomes (unauthorized, success) returns the
\* payload of its second attempt unchanged after exactly 2 attempts and one
\* re-login; when it is the first fetch after main's initial login, 2 logins
\* and 2 attempts have happened in total.
C5_UnauthorizedThenSuccess ==
    (FirstUnauthorized /\ wpc = "returned") =>
        /\ CountOf(oplog, "attempt") = 2
        /\ CountOf(oplog, "login") = 1
        /\ oplog[Len(oplog)].ok
        /\ opres = oplog[Len(oplog)].val
        /\ (driver = "main" /\ nOps = 1) => (nLogin = 2 /\ nAttempts = 2)

\* main: get_accounts returned two accounts on its second attempt
C5_Witness ==
    /\ driver = "main"
    /\ nOps = 1
    /\ FirstUnauthorized
    /\ wpc = "returned"
    /\ opres = [accounts |-> <<Brokerage, Checking>>]
    /\ nLogin = 2

\* C6: between a 401 on attempt 1 and attempt 2 there are, in this order,
\* exactly one forced re-login and then exactly one wait of the retry_delay
\* the instance was constructed with; an operation that is not retried
\* waits not at all.
C6_ReloginThenFixedWait ==
    /\ \A i \in EventsOf(oplog, "sleep") :
          /\ i = 6
          /\ FirstUnauthorized
          /\ oplog[4].ev = "login"
          /\ oplog[5].ev = "login_result" /\ oplog[5].ok
          /\ oplog[i].d = retry_delay
    /\ \A i \in EventsOf(oplog, "attempt") :
          i > 1 =>
              /\ i = 7
              /\ oplog[6].ev = "sleep"
              /\ CountOf(oplog, "login") = 1
              /\ CountOf(oplog, "sleep") = 1
    /\ (OpEnded /\ CountOf(oplog, "attempt") < 2) =>
          CountOf(oplog, "sleep") = 0

\* an instance constructed with retry_delay 0 waited 0 and attempted again
C6_Witness ==
    /\ retry_delay = 0
    /\ Len(oplog) >= 7
    /\ oplog[6].ev = "sleep"
    /\ oplog[6].d = 0
    /\ oplog[7].ev = "attempt"

\* a retry of an instance constructed with retry_delay 5 waited 5
C6_WitnessLong ==
    /\ retry_delay = 5
    /\ Len(oplog) >= 7
    /\ oplog[6].d = 5

\* C7: a report that failed, in a fetch or in the mapping of a response,
\* has neither opened nor changed any of its output files.
C7_FailedReportWritesNothing ==
    lastFailed # "none" =>
        \A f \in ReportFiles(lastFailed) :
            /\ fs[f] = fsAtStart[f]
            /\ f \notin opened

\* the second holdings fetch of a portfolio report failed after the first
\* one had delivered a holding
C7_Witness ==
    /\ lastFailed = "portfolio"
    /\ op.name = "get_holdings"
    /\ wpc = "raised"
    /\ Len(all_holdings) > 0
    /\ idx = 2

\* the mapping of a transactions response failed
C7_WitnessMapping ==
    /\ lastFailed = "transactions"
    /\ op.name = "get_transactions"
    /\ wpc = "none"
    /\ raised.type \in {"KeyError", "ValidationError"}

IsPrefix(s, t) == Len(s) <= Len(t) /\ \A i \in DOMAIN s : s[i] = t[i]

C8_Order ==
    driver = "main" =>
        /\ IsPrefix(reportsStarted, <<"balances", "transactions", "portfolio">>)
        /\ IsPrefix(reportsDone, reportsStarted)
        /\ Len(reportsStarted) <= Len(reportsDone) + 1
        /\ (report # "none") =>
              /\ Len(reportsStarted) = Len(reportsDone) + 1
              /\ reportsStarted[Len(reportsStarted)] = report

C8_NothingAfterFailure ==
    (driver = "main" /\ raised # NoError) =>
        /\ fs' = fs
        /\ inflight' = inflight
        /\ nAttempts' = nAttempts
        /\ nLogin' = nLogin
        /\ nOps' = nOps
        /\ reportsStarted' = reportsStarted

\* C8: in a run of main the reports start in the order balances,
\* transactions, portfolio, each only after the one before completed, and
\* once anything failed no call is issued and no file is written any more.
C8_ReportsInOrderUntilFailure ==
    []C8_Order /\ [][C8_NothingAfterFailure]_vars

\* main ended in a failed transactions report after a completed balances
\* report
C8_Witness ==
    /\ driver = "main"
    /\ pc = "terminated"
    /\ lastFailed = "transactions"
    /\ reportsDone = <<"balances">>
    /\ reportsStarted = <<"balances", "transactions">>

\* C9: in a run of main, the files of a completed report stay as that
\* report wrote them, whatever happens later in the run.
C9_CompletedFilesKept ==
    driver = "main" =>
        \A i \in DOMAIN reportsDone :
            \A f \in ReportFiles(reportsDone[i]) : fs[f] = fsAtDone[f]

\* the portfolio report failed after balances and transactions completed
C9_Witness ==
    /\ driver = "main"
    /\ lastFailed = "portfolio"
    /\ reportsDone = <<"balances", "transactions">>
    /\ fs[FN_BALANCE_REPORT].exists
    /\ Len(fs[FN_BALANCE_HISTORY_REPORT].rows) > 1
    /\ fs[FN_TX_REPORT].exists

RECURSIVE Flatten(_)
Flatten(ss) == IF ss = <<>> THEN <<>> ELSE Head(ss) \o Flatten(Tail(ss))

HistoryStartedEmpty ==
    ~fs0[FN_BALANCE_HISTORY_REPORT].exists
        \/ fs0[FN_BALANCE_HISTORY_REPORT].rows = <<>>

\* C10: starting from an empty or nonexistent history file, after k >= 1
\* successful balances reports the history file is one header row, as its
\* first line, followed by the data rows of every run in run order: k*N + 1
\* lines when every run had N accounts, and no second header.
C10_HistoryOneHeader ==
    (HistoryStartedEmpty /\ balRuns # <<>>) =>
        LET rows == fs[FN_BALANCE_HISTORY_REPORT].rows
            data == Flatten([k \in DOMAIN balRuns |->
                                RowsOf(balRuns[k], BalanceRow)])
        IN  /\ fs[FN_BALANCE_HISTORY_REPORT].exists
            /\ rows = <<BALANCES_HEADER>> \o data
            /\ \A i \in 2..Len(rows) : rows[i] # BALANCES_HEADER
            /\ \A n \in 0..Len(rows) :
                  (\A k \in DOMAIN balRuns : Len(balRuns[k]) = n) =>
                      Len(rows) = Len(balRuns) * n + 1

\* two balances reports of two accounts each on a history file that did not
\* exist: five lines
C10_Witness ==
    /\ ~fs0[FN_BALANCE_HISTORY_REPORT].exists
    /\ Len(balRuns) = 2
    /\ Len(balRuns[1]) = 2
    /\ Len(balRuns[2]) = 2
    /\ Len(fs[FN_BALANCE_HISTORY_REPORT].rows) = 5

(***************************************************************************)
(* Reports and their files.                                                *)
(***************************************************************************)
ReportNames == {"balances", "transactions", "portfolio"}
OverwrittenFile(r) ==
    CASE r = "balances" -> FN_BALANCE_REPORT
      [] r = "transactions" -> FN_TX_REPORT
      [] OTHER -> FN_PORTFOLIO_REPORT
HeaderOf(r) ==
    CASE r = "balances" -> BALANCES_HEADER
      [] r = "transactions" -> TRANSACTIONS_HEADER
      [] OTHER -> PORTFOLIO_HEADER
OldRows == {OldBalanceRow, OldTransactionRow, OldPortfolioRow}
\* the rows of the run that is completing, from the report's mapped items
RunRows(r) ==
    CASE r = "balances" -> RowsOf(loaded_data, BalanceRow)
      [] r = "transactions" -> RowsOf(loaded_data, TransactionRow)
      [] OTHER -> RowsOf(all_holdings, PortfolioRow)
Completes(r) == report = r /\ reportsDone' = Append(reportsDone, r)

C11_Step ==
    \A r \in ReportNames :
        Completes(r) =>
            LET rows == fs'[OverwrittenFile(r)].rows IN
            /\ fs'[OverwrittenFile(r)].exists
            /\ rows = <<HeaderOf(r)>> \o RunRows(r)
            /\ Len(rows) = 1 + Len(RunRows(r))
            /\ \A i \in 2..Len(rows) :
                  rows[i] # HeaderOf(r) /\ rows[i] \notin OldRows

\* C11: whenever a balances, transactions or portfolio report completes, its
\* overwrite-mode file holds exactly one header row followed by exactly the
\* rows of that run, whatever the file held before; no earlier row remains.
C11_OverwrittenInFull == [][C11_Step]_vars

\* main is done; the portfolio file, which held a header and an old row, now
\* holds the header and the two holdings of this run
C11_Witness ==
    /\ pc = "done"
    /\ fs0[FN_PORTFOLIO_REPORT].rows = <<PORTFOLIO_HEADER, OldPortfolioRow>>
    /\ Len(fs[FN_PORTFOLIO_REPORT].rows) = 3
    /\ fs[FN_PORTFOLIO_REPORT].rows[1] = PORTFOLIO_HEADER
    /\ \A i \in 2..3 : fs[FN_PORTFOLIO_REPORT].rows[i] # OldPortfolioRow
    /\ fs[FN_BALANCE_REPORT].rows[1] = BALANCES_HEADER
    /\ OldBalanceRow \notin {fs[FN_BALANCE_REPORT].rows[i] :
                                i \in DOMAIN fs[FN_BALANCE_REPORT].rows}

(***************************************************************************)
(* report_portfolio and its holdings fetches.                              *)
(***************************************************************************)
HasHoldings(a) == a.holdingsCount > 0
\* the accounts with holdings among the first k of the list, in list order
WithHoldings(k) == SelectSeq(SubSeq(accounts_query, 1, k), HasHoldings)
Ids(as) == [j \in DOMAIN as |-> as[j].id]
HeldIds == [j \in DOMAIN held |-> held[j].account]
\* wrapped fetches that main invokes before report_portfolio
OpsBeforePortfolio == 3

\* C12: report_portfolio invokes a holdings fetch for an account exactly when
\* its holdings count is greater than zero: one operation per such account,
\* with that account's id, in the order of the account list, and none for an
\* account without holdings.
C12_HoldingsFetchedIffHeld ==
    /\ report = "portfolio" =>
          /\ HeldIds = Ids(WithHoldings(idx - 1))
          /\ nOps - OpsBeforePortfolio
                = Len(held) + (IF pc = "pf_get" THEN 1 ELSE 0)
          /\ pc = "pf_get" =>
                /\ HasHoldings(accounts_query[idx])
                /\ op = [name |-> "get_holdings",
                         arg |-> accounts_query[idx].id]
          /\ inflight.call = "get_holdings" =>
                /\ pc = "pf_get"
                /\ inflight.arg = accounts_query[idx].id
    /\ pc = "done" =>
          /\ HeldIds = Ids(WithHoldings(Len(accounts_query)))
          /\ nOps - OpsBeforePortfolio = Len(held)

\* main is done: of the accounts Checking (no holdings) and Retirement, only
\* Retirement was fetched, once, although that fetch took two attempts
C12_Witness ==
    /\ pc = "done"
    /\ Ids(accounts_query) = <<Checking.id, Retirement.id>>
    /\ HeldIds = <<Retirement.id>>
    /\ nOps = 4
    /\ nAttempts = 5

\* the display name of the account of accounts_query with identifier id
NameOf(id) ==
    LET i == CHOOSE i \in DOMAIN accounts_query : accounts_query[i].id = id
    IN  accounts_query[i].account
\* the rows of the holdings fetched for the j-th fetched account
HeldRows(j) ==
    [i \in DOMAIN held[j].holdings |->
        <<NameOf(held[j].account)>> \o Tail(PortfolioRow(held[j].holdings[i]))]

\* C13: the portfolio file written by report_portfolio holds, after the
\* header, the holdings grouped by account in account-list order and within
\* an account in the order of the fetched list, each row's account field
\* being the display name of the account it was fetched for, never the
\* empty parse-time value.
C13_RowsCarryOwningAccount ==
    pc = "done" =>
        LET rows == fs[FN_PORTFOLIO_REPORT].rows IN
        /\ rows = <<PORTFOLIO_HEADER>>
                    \o Flatten([j \in DOMAIN held |-> HeldRows(j)])
        /\ \A k \in 2..Len(rows) :
              /\ rows[k][1] # NoAccount
              /\ \E i \in DOMAIN accounts_query :
                    /\ HasHoldings(accounts_query[i])
                    /\ rows[k][1] = accounts_query[i].account

\* Brokerage returned VTI and BND, Retirement returned BND: three rows, the
\* first two of Brokerage in fetched order, the third of Retirement
C13_Witness ==
    /\ pc = "done"
    /\ HeldIds = <<Brokerage.id, Retirement.id>>
    /\ Len(fs[FN_PORTFOLIO_REPORT].rows) = 4
    /\ fs[FN_PORTFOLIO_REPORT].rows[2][1] = "Brokerage"
    /\ fs[FN_PORTFOLIO_REPORT].rows[2][2] = "VTI"
    /\ fs[FN_PORTFOLIO_REPORT].rows[3][1] = "Brokerage"
    /\ fs[FN_PORTFOLIO_REPORT].rows[3][2] = "BND"
    /\ fs[FN_PORTFOLIO_REPORT].rows[4][1] = "Annuity"
    /\ fs[FN_PORTFOLIO_REPORT].rows[4][2] = "BND"

(***************************************************************************)
(* Calls in flight.                                                        *)
(***************************************************************************)
Issues == nAttempts' # nAttempts \/ nLogin' # nLogin
Waiting == wpc \in {"before_sleep", "sleep"}

C14_State ==
    /\ Waiting => inflight = NoCall
    /\ inflight.call = "login" =>
          (pc = "await_login") # (wpc = "await_login")
    /\ (inflight.call # "none" /\ inflight.call # "login") =>
          /\ wpc = "await"
          /\ inflight.call = op.name
    /\ wpc = "await" => inflight.call = op.name
    /\ wpc = "await_login" => inflight.call = "login"

C14_Step ==
    /\ Issues =>
          /\ inflight = NoCall
          /\ inflight' # NoCall
          /\ (nAttempts' - nAttempts) + (nLogin' - nLogin) = 1
    /\ fs' # fs => (inflight = NoCall /\ inflight' = NoCall)

\* C14: at most one outbound call is in flight at any time: a call is issued
\* only when none is in flight, a fetch attempt, the forced re-login and the
\* retry wait never overlap, and no file is written while a call is in
\* flight.
C14_OneCallInFlight == []C14_State /\ [][C14_Step]_vars

\* the forced re-login of the transactions report is in flight, after the
\* balances report wrote its files
C14_Witness ==
    /\ report = "transactions"
    /\ inflight.call = "login"
    /\ wpc = "await_login"
    /\ ~inflight.saved
    /\ reportsDone = <<"balances">>
    /\ fs[FN_BALANCE_REPORT] # fs0[FN_BALANCE_REPORT]

(***************************************************************************)
(* Order of the outbound calls of main.                                    *)
(***************************************************************************)
\* so far every call was made once: no forced re-login, no second attempt
AllFirstAttempt == nLogin <= 1 /\ nAttempts <= nOps
CallsIssued == nLogin + nAttempts
FixedCalls ==
    <<[call |-> "login", arg |-> 0], [call |-> "get_accounts", arg |-> 0],
      [call |-> "get_categories", arg |-> 0],
      [call |-> "get_transactions", arg |-> 0]>>
HoldingsCalls ==
    [j \in DOMAIN WithHoldings(Len(accounts_query)) |->
        [call |-> "get_holdings",
         arg |-> WithHoldings(Len(accounts_query))[j].id]]
ExpectedCalls == FixedCalls \o HoldingsCalls
HistoryAppended ==
    LET old == IF fs0[FN_BALANCE_HISTORY_REPORT].exists
               THEN fs0[FN_BALANCE_HISTORY_REPORT].rows ELSE <<>>
    IN  /\ fs[FN_BALANCE_HISTORY_REPORT].exists
        /\ fs[FN_BALANCE_HISTORY_REPORT].rows
              = old \o (IF old = <<>> THEN <<BALANCES_HEADER>> ELSE <<>>)
                    \o RowsOf(accounts_query, BalanceRow)

\* C15: in a run of main in which every call succeeds on its first attempt,
\* the k-th outbound call is the k-th of: login, get_accounts,
\* get_categories, get_transactions, then get_holdings for each account with
\* holdings in account-list order; and when main is done exactly these calls
\* were made and the four files are written.
C15_CallOrder ==
    (driver = "main" /\ AllFirstAttempt) =>
        /\ inflight # NoCall =>
              /\ CallsIssued <= Len(FixedCalls)
                    => [call |-> inflight.call, arg |-> inflight.arg]
                          = FixedCalls[CallsIssued]
              /\ CallsIssued > Len(FixedCalls)
                    => /\ CallsIssued <= Len(ExpectedCalls)
                       /\ [call |-> inflight.call, arg |-> inflight.arg]
                             = ExpectedCalls[CallsIssued]
        /\ pc = "done" =>
              /\ CallsIssued = Len(ExpectedCalls)
              /\ reportsDone = <<"balances", "transactions", "portfolio">>
              /\ fs[FN_BALANCE_REPORT]
                    = File(<<BALANCES_HEADER>>
                              \o RowsOf(accounts_query, BalanceRow))
              /\ HistoryAppended
              /\ fs[FN_TX_REPORT].exists
              /\ fs[FN_TX_REPORT].rows[1] = TRANSACTIONS_HEADER
              /\ OldTransactionRow \notin
                    {fs[FN_TX_REPORT].rows[i] :
                        i \in DOMAIN fs[FN_TX_REPORT].rows}
              /\ fs[FN_PORTFOLIO_REPORT].exists
              /\ fs[FN_PORTFOLIO_REPORT].rows
                    = <<PORTFOLIO_HEADER>>
                         \o Flatten([j \in DOMAIN held |-> HeldRows(j)])

\* main is done after six calls, none repeated: the two holdings fetches were
\* for Brokerage and then Retirement
C15_Witness ==
    /\ driver = "main"
    /\ pc = "done"
    /\ AllFirstAttempt
    /\ CallsIssued = 6
    /\ HeldIds = <<Brokerage.id, Retirement.id>>
    /\ Len(fs[FN_TX_REPORT].rows) = 2

(***************************************************************************)
(* Start of main.                                                          *)
(***************************************************************************)
MissingFlag == \E f \in Flags : f \notin DOMAIN argv
BlankFlag == \E f \in Flags : f \in DOMAIN argv /\ argv[f] = ""
NothingDone ==
    /\ nLogin = 0
    /\ nAttempts = 0
    /\ nOps = 0
    /\ inflight = NoCall
    /\ reportsStarted = <<>>
    /\ fs = fs0
    /\ opened = {}

\* C16: when main is started without one of the flags username, password
\* and token (or with a blank one), the run has terminated with a fatal error
\* and no login, no fetch and no file write has happened.
C16_MissingFlagIsFatal ==
    /\ (driver = "main" /\ MissingFlag) =>
          /\ pc = "terminated"
          /\ raised = ArgumentError
          /\ NothingDone
    /\ (driver = "main" /\ ~MissingFlag /\ BlankFlag) =>
          /\ pc = "terminated"
          /\ raised = AssertionError
          /\ NothingDone

\* main was started with username and password and no token
C16_Witness ==
    /\ driver = "main"
    /\ DOMAIN argv = {"username", "password"}
    /\ argv["username"] = "secret"
    /\ argv["password"] = "secret"
    /\ pc = "terminated"
    /\ raised.type = "SystemExit"

(***************************************************************************)
(* The response mapper.                                                    *)
(***************************************************************************)
Loaded(schema) == driver = "mapper" /\ op.name = schema /\ pc = "loaded"
Failed(schema) == driver = "mapper" /\ op.name = schema /\ pc = "raised"
DistinctIds(cats) ==
    \A i, j \in DOMAIN cats : cats[i].id = cats[j].id => i = j

\* C17 as the spec states it: the lookup built from a valid category-list
\* response has exactly one entry per category of the response, keyed by the
\* stringified identifier and valued by the group name, so it has as many
\* entries as the response has categories.
C17_OneEntryPerCategory ==
    Loaded("CategoryQuerySchema") =>
        LET cats == opres.categories IN
        /\ Cardinality(DOMAIN catmap) = Len(cats)
        /\ \A i \in DOMAIN cats :
              /\ Str(cats[i].id) \in DOMAIN catmap
              /\ catmap[Str(cats[i].id)] = cats[i].group.name

\* C17, amended: the lookup has exactly one entry per distinct category
\* identifier of the response, keyed by the stringified identifier and valued
\* by the group name of the last category with that identifier; when the
\* identifiers are pairwise distinct that is one entry per category.
C17_OneEntryPerIdentifier ==
    Loaded("CategoryQuerySchema") =>
        LET cats == opres.categories IN
        /\ DOMAIN catmap = {Str(cats[i].id) : i \in DOMAIN cats}
        /\ \A i \in DOMAIN cats :
              (\A j \in DOMAIN cats : cats[j].id = cats[i].id => j <= i)
                  => catmap[Str(cats[i].id)] = cats[i].group.name
        /\ DistinctIds(cats) =>
              /\ Cardinality(DOMAIN catmap) = Len(cats)
              /\ \A i \in DOMAIN cats :
                    catmap[Str(cats[i].id)] = cats[i].group.name

\* Groceries and Produce share identifier 10: the lookup has the one entry
\* "10", with the group of Produce
C17_Witness ==
    /\ Loaded("CategoryQuerySchema")
    /\ opres.categories = <<Groceries, Produce>>
    /\ DOMAIN catmap = {"10"}
    /\ catmap["10"] = "Fresh"

\* Groceries and Rent: two categories, two entries
C17_WitnessDistinct ==
    /\ Loaded("CategoryQuerySchema")
    /\ opres.categories = <<Rent, Groceries>>
    /\ DOMAIN catmap = {"10", "11"}
    /\ catmap["10"] = "Food"
    /\ catmap["11"] = "Housing"


\* the decimal d and the number v of a response have the same value
SameNumber(d, v) == d.c * Pow10(d.e - v.e) = v.c * Pow10(v.e - d.e)

\* C18: a valid transactions response mapped with a lookup that has every
\* referenced category identifier yields as many rows as it has
\* transactions, in the order of the input, each with the group that the
\* lookup gives for its category identifier.
C18_TransactionsMappedInOrder ==
    (driver = "mapper" /\ op.name = "TransactionsQuerySchema"
        /\ Has(opres, "allTransactions")
        /\ \A i \in DOMAIN opres.allTransactions.results :
              LET t == opres.allTransactions.results[i] IN
              /\ \A f \in {"id", "amount", "date", "notes", "merchant",
                            "account", "category"} : f \in DOMAIN t
              /\ Str(t.category.id) \in DOMAIN catmap) =>
        LET txs == opres.allTransactions.results IN
        /\ pc = "loaded"
        /\ raised = NoError
        /\ Len(loaded_data) = Len(txs)
        /\ \A i \in DOMAIN txs :
              /\ loaded_data[i].group = catmap[Str(txs[i].category.id)]
              /\ loaded_data[i].date = txs[i].date
              /\ SameNumber(loaded_data[i].amount, txs[i].amount)
              /\ loaded_data[i].merchant = txs[i].merchant.name
              /\ loaded_data[i].category = txs[i].category.name
              /\ loaded_data[i].account = txs[i].account.displayName
              /\ loaded_data[i].notes = txs[i].notes

\* the rent and then the groceries transaction, with a lookup that has both
\* categories, identifier 10 under the group of Produce
C18_Witness ==
    /\ Loaded("TransactionsQuerySchema")
    /\ opres.allTransactions.results = <<TxRent, TxGroceries>>
    /\ Len(loaded_data) = 2
    /\ loaded_data[1].group = "Housing"
    /\ loaded_data[2].group = "Fresh"
    /\ loaded_data[2].category = "Groceries"


\* the transactions response held in opres references a category identifier
\* that catmap lacks
Unresolved ==
    /\ op.name = "get_transactions"
    /\ Has(opres, "allTransactions")
    /\ \E i \in DOMAIN opres.allTransactions.results :
          /\ Has(opres.allTransactions.results[i], "category")
          /\ Str(opres.allTransactions.results[i].category.id)
                \notin DOMAIN catmap
BatchFailed ==
    /\ pc = "terminated"
    /\ lastFailed = "transactions"
    /\ raised \in {KeyError, ValidationError}
    /\ loaded_data = <<>>
    /\ fs[FN_TX_REPORT] = fsAtStart[FN_TX_REPORT]
    /\ fs[FN_TX_REPORT] = fs0[FN_TX_REPORT]
    /\ FN_TX_REPORT \notin opened
    /\ reportsDone = <<"balances">>

C19_State == (driver = "main" /\ Unresolved /\ wpc # "returned") => BatchFailed
C19_Step ==
    (driver = "main" /\ Unresolved /\ wpc = "returned") =>
        /\ pc' = "terminated"
        /\ loaded_data' = <<>>
        /\ fs' = fs
        /\ opened' = opened

\* C19: when a transaction of the response references a category identifier
\* that the lookup lacks, the mapping of the response fails as a whole: no
\* row is produced for any transaction of the batch, and report_transactions
\* ends without opening or writing the transactions file.
C19_UnresolvedCategoryFailsBatch == []C19_State /\ [][C19_Step]_vars

\* the lookup has only Groceries; the batch of the groceries and the rent
\* transaction failed and the old transactions file is as it was
C19_Witness ==
    /\ driver = "main"
    /\ BatchFailed
    /\ Unresolved
    /\ opres.allTransactions.results = <<TxGroceries, TxRent>>
    /\ DOMAIN catmap = {"10"}
    /\ raised = KeyError
    /\ fs0[FN_TX_REPORT].rows = <<TRANSACTIONS_HEADER, OldTransactionRow>>


\* the list of elements of the input of the schema that was applied
InputList ==
    CASE op.name = "AccountsQuerySchema" ->
            IF Has(opres, "accounts") THEN opres.accounts ELSE <<>>
      [] op.name = "CategoryQuerySchema" ->
            IF Has(opres, "categories") THEN opres.categories ELSE <<>>
      [] op.name = "TransactionsQuerySchema" ->
            IF Has(opres, "allTransactions")
            THEN opres.allTransactions.results ELSE <<>>
      [] op.name = "HoldingsQuerySchema" ->
            IF Has(opres, "portfolio")
            THEN opres.portfolio.aggregateHoldings.edges ELSE <<>>
      [] OTHER -> <<>>
\* the element lacks its identifier or a field that its row is built from
LacksField(e) ==
    CASE op.name = "AccountsQuerySchema" ->
            \E f \in {"id", "displayName", "currentBalance", "holdingsCount",
                      "updatedAt"} : f \notin DOMAIN e
      [] op.name = "CategoryQuerySchema" ->
            \E f \in {"id", "group"} : f \notin DOMAIN e
      [] op.name = "TransactionsQuerySchema" ->
            \E f \in {"id", "amount", "date", "notes", "merchant", "account",
                      "category"} : f \notin DOMAIN e
      [] op.name = "HoldingsQuerySchema" ->
            \/ \E f \in {"id", "quantity", "basis"} : f \notin DOMAIN e.node
            \/ "currentPrice" \notin DOMAIN e.node.security
            \/ "ticker" \notin DOMAIN e.node.security
      [] OTHER -> FALSE

\* C20: for the accounts, categories, transactions and holdings mappings,
\* when any one element of the input list lacks its identifier or a field
\* that its row is built from, the load fails as a whole and yields nothing:
\* no rows, not even those of the well-formed elements, and no lookup.
C20_MissingFieldFailsWhole ==
    (driver = "mapper"
        /\ \E i \in DOMAIN InputList : LacksField(InputList[i])) =>
        /\ pc = "raised"
        /\ raised \in {ValidationError, KeyError}
        /\ loaded_data = <<>>
        /\ op.name = "CategoryQuerySchema" => DOMAIN catmap = {}

\* the accounts list of Checking and an account without balance yields no
\* rows
C20_Witness ==
    /\ Failed("AccountsQuerySchema")
    /\ InputList = <<Checking, Drop(Checking, "currentBalance")>>
    /\ raised = KeyError
    /\ loaded_data = <<>>

\* a holdings list whose second holding has no price yields no rows
C20_WitnessHoldings ==
    /\ Failed("HoldingsQuerySchema")
    /\ InputList = <<EdgeBND, EdgeNoPrice>>
    /\ loaded_data = <<>>


\* C21: in a run of main the account list is obtained by exactly one wrapped
\* get_accounts, the first wrapped fetch of the run, inside report_balances;
\* report_portfolio issues no get_accounts and takes the accounts it queries,
\* and the names it backfills, from the list report_balances returned.
C21_AccountsFetchedOnce ==
    driver = "main" =>
        /\ op.name = "get_accounts" =>
              /\ nOps = 1
              /\ report = "balances" \/ lastFailed = "balances"
        /\ inflight.call = "get_accounts" => report = "balances"
        /\ (\E i \in DOMAIN reportsDone : reportsDone[i] = "balances") =>
              /\ nOps >= 1
              /\ Len(balRuns) = 1
              /\ accounts_query = balRuns[1]
        /\ report = "portfolio" =>
              /\ op.name \in {"none", "get_holdings"}
              /\ inflight.call \in {"none", "login", "get_holdings"}
              /\ op.name = "get_holdings" =>
                    \E j \in DOMAIN balRuns[1] :
                        /\ balRuns[1][j].id = op.arg
                        /\ balRuns[1][j].holdingsCount > 0
              /\ \A i \in DOMAIN all_holdings :
                    \E j \in DOMAIN balRuns[1] :
                        all_holdings[i].account = balRuns[1][j].account

\* the second holdings fetch of the portfolio report is in flight, and rows of
\* the first account are already collected
C21_Witness ==
    /\ driver = "main"
    /\ report = "portfolio"
    /\ inflight.call = "get_holdings"
    /\ nOps = 5
    /\ Len(accounts_query) = 2
    /\ Len(all_holdings) > 0


\* main has returned after its three reports, or an exception has ended it
Completed ==
    /\ pc = "done"
    /\ reportsDone = <<"balances", "transactions", "portfolio">>
    /\ raised = NoError
Failed_run == pc = "terminated" /\ raised # NoError
Ended == Completed \/ Failed_run

\* C22: when every login and fetch that is sent eventually returns or
\* raises, every run of main eventually ends, either with its three reports
\* completed or with the first exception that was not recovered, and stays
\* ended: it does not go on retrying.
C22_MainTerminates == <>[](driver = "main" /\ Ended /\ inflight = NoCall)

\* a run that completed although two of its fetches needed a retry
C22_Witness ==
    /\ Completed
    /\ nLogin = 3
    /\ nAttempts = nOps + 2

\* a run ended by the second failure of a retried fetch
C22_WitnessFailed ==
    /\ Failed_run
    /\ wpc = "raised"
    /\ CountOf(oplog, "attempt") = 2


\* hours from the start of the month of u to u, counted in UTC
HoursUTC(u) == u.day * 24 + u.hour - u.offset
\* hours that US Eastern time is behind UTC in the month of u
EasternBehind(u) == IF u.month = 7 THEN 4 ELSE 5

\* C23: for every account with a timezone-aware updatedAt, date_eastern is
\* the calendar date on which that instant falls in US Eastern time and
\* datetime is the instant as it was received; when the instant is given in
\* UTC and fewer hours have passed since midnight than Eastern time is
\* behind UTC, date_eastern is the day before the date of the timestamp.
C23_EasternDateByConversion ==
    Loaded("AccountsQuerySchema") =>
        \A i \in DOMAIN loaded_data :
            LET u == opres.accounts[i].updatedAt
                row == loaded_data[i]
                eastern == HoursUTC(u) - EasternBehind(u)
            IN  /\ row.datetime = IsoFormat(u)
                /\ \E d \in 1..31 :
                      /\ d * 24 <= eastern
                      /\ eastern < (d + 1) * 24
                      /\ row.date_eastern =
                            IsoDate([month |-> u.month, day |-> d])
                /\ (u.offset = 0 /\ u.hour < EasternBehind(u)) =>
                      /\ row.date_eastern =
                            IsoDate([month |-> u.month, day |-> u.day - 1])
                      /\ row.date_eastern #
                            IsoDate([month |-> u.month, day |-> u.day])

\* an account updated at 03:05 UTC on 12 January is dated 11 January
C23_Witness ==
    /\ Loaded("AccountsQuerySchema")
    /\ Len(loaded_data) = 1
    /\ opres.accounts[1].updatedAt = T_Night
    /\ loaded_data[1].date_eastern = "2026-01-11"
    /\ loaded_data[1].datetime = "2026-01-12T03:05:00+00:00"

\* an account updated at 04:00 UTC on 12 July keeps the date 12 July
C23_WitnessSummer ==
    /\ Loaded("AccountsQuerySchema")
    /\ Len(loaded_data) = 1
    /\ opres.accounts[1].updatedAt = T_SummerFour
    /\ loaded_data[1].date_eastern = "2026-07-12"


\* the text is written with an exponent
ScientificTexts ==
    {Lit[t] : t \in {x \in DOMAIN Lit : x.form \in {"e", "E"}}}
Scientific(s) == s \in ScientificTexts
\* the CSV cell is, character for character, the text of the number v of the
\* response, and has no exponent
SameText(cell, v) == cell = Lit[PyStr(v)] /\ ~Scientific(cell)

\* C24: for the account balance, the transaction amount and the holding's
\* share quantity, price and cost basis, the text that reaches the CSV row is
\* character for character the text of the value in the response, with no
\* rounding and no exponent notation.
C24_DecimalTextIdentity ==
    /\ Loaded("AccountsQuerySchema") =>
          \A i \in DOMAIN loaded_data :
              SameText(BalanceRow(loaded_data[i])[2],
                       opres.accounts[i].currentBalance)
    /\ Loaded("TransactionsQuerySchema") =>
          \A i \in DOMAIN loaded_data :
              SameText(TransactionRow(loaded_data[i])[7],
                       opres.allTransactions.results[i].amount)
    /\ Loaded("HoldingsQuerySchema") =>
          \A i \in DOMAIN loaded_data :
              LET node == opres.portfolio.aggregateHoldings.edges[i].node
                  row == PortfolioRow(loaded_data[i])
              IN  /\ SameText(row[3], node.quantity)
                  /\ SameText(row[4], node.security.currentPrice)
                  /\ SameText(row[5], node.basis)

\* the part of C24 that the code keeps: the value written is the value
\* received, digit for digit, whatever the notation
C24_ValueKept ==
    /\ Loaded("AccountsQuerySchema") =>
          \A i \in DOMAIN loaded_data :
              SameNumber(loaded_data[i].balance,
                         opres.accounts[i].currentBalance)
    /\ Loaded("TransactionsQuerySchema") =>
          \A i \in DOMAIN loaded_data :
              SameNumber(loaded_data[i].amount,
                         opres.allTransactions.results[i].amount)

\* a holding of 1e-07 shares is written as 1E-7
C24_Witness ==
    /\ Loaded("HoldingsQuerySchema")
    /\ opres.portfolio.aggregateHoldings.edges = <<EdgeSatoshi>>
    /\ PortfolioRow(loaded_data[1]) = <<NoAccount, "BTC", "1E-7", "72.0", "0.00001">>


\* the wrapper went on after the failure of attempt 1
Retried == Len(oplog) > 2 \/ wpc = "before_sleep"

\* C25: the failure of attempt 1 of a wrapped fetch is retried if and only
\* if the error is a transport-server error whose code is 401; a
\* transport-server error with another code or with none, and an error of
\* another kind whatever its code, is not retried, and two errors that differ
\* in the message only are treated alike.
C25_RetryIffTransport401 ==
    FirstAttemptFailed =>
        /\ Retried <=>
              (oplog[2].err.type = "TransportServerError"
                  /\ oplog[2].err.code = 401)
        /\ ~Retried => (wpc = "raised" /\ raised = oplog[2].err)

\* a transport-server error of code 500 whose message mentions 401 was not
\* retried
C25_Witness ==
    /\ FirstAttemptFailed
    /\ oplog[2].err = Error("TransportServerError", 500, "401 Unauthorized")
    /\ wpc = "raised"
    /\ Len(oplog) = 2

\* an error of another kind that carries code 401 was not retried
C25_WitnessOtherKind ==
    /\ FirstAttemptFailed
    /\ oplog[2].err = Error("Exception", 401, "401 Unauthorized")
    /\ wpc = "raised"
    /\ Len(oplog) = 2

\* a transport-server error of code 401 whose message does not mention 401
\* was retried
C25_WitnessRetried ==
    /\ FirstAttemptFailed
    /\ oplog[2].err = Error("TransportServerError", 401, "Server Error")
    /\ CountOf(oplog, "attempt") = 2


\* the step in which report_transactions goes on to get_transactions
StartsTransactionsFetch ==
    op'.name = "get_transactions" /\ op.name # "get_transactions"

C26_State ==
    driver = "main" =>
        /\ inflight.call = "get_categories" =>
              report = "transactions" /\ pc = "tx_get_categories"
        /\ inflight.call = "get_transactions" =>
              report = "transactions" /\ pc = "tx_get_transactions"
        /\ op.name \in {"get_categories", "get_transactions"} =>
              CountOf(oplog, "attempt") <= 2
        /\ (lastFailed = "transactions" /\ op.name = "get_categories") =>
              /\ nOps = 2
              /\ fs[FN_TX_REPORT] = fs0[FN_TX_REPORT]
C26_Step ==
    StartsTransactionsFetch =>
        /\ pc = "tx_get_categories"
        /\ op.name = "get_categories"
        /\ wpc = "returned"
        /\ inflight = NoCall
        /\ Has(opres, "categories")
        /\ \A i \in DOMAIN opres.categories :
              /\ Has(opres.categories[i], "id")
              /\ Has(opres.categories[i], "group")
        /\ DOMAIN catmap' =
              {Str(opres.categories[i].id) : i \in DOMAIN opres.categories}
        /\ oplog' = <<>>
        /\ nAttempts' = nAttempts

\* C26: in report_transactions the wrapped get_categories, with attempts of
\* its own, has returned and the category lookup has been built from its
\* response before get_transactions is invoked; when get_categories or the
\* building of the lookup fails, get_transactions is not invoked and the
\* transactions file is left as it was.
C26_CategoriesBeforeTransactions == []C26_State /\ [][C26_Step]_vars

\* get_transactions is on its second attempt after get_categories had used
\* two attempts too
C26_Witness ==
    /\ driver = "main"
    /\ inflight.call = "get_transactions"
    /\ CountOf(oplog, "attempt") = 2
    /\ nAttempts = 5
    /\ nLogin = 3
    /\ DOMAIN catmap = {"10"}

\* the lookup could not be built: the run ended without get_transactions
C26_WitnessNoLookup ==
    /\ driver = "main"
    /\ lastFailed = "transactions"
    /\ op.name = "get_categories"
    /\ raised = KeyError
    /\ nOps = 2
    /\ fs[FN_TX_REPORT] = File(<<TRANSACTIONS_HEADER, OldTransactionRow>>)


\* the re-login of the current wrapped fetch has failed
ReloginFailed ==
    \E i \in DOMAIN oplog : oplog[i].ev = "login_result" /\ ~oplog[i].ok

\* C27: when the re-login that follows an unauthorized attempt 1 fails, the
\* wrapped fetch ends there with the error of the login: one attempt, one
\* login, no wait and no second attempt, and the instance holds the client
\* that was constructed for the re-login, not the one that returned the 401.
C27_FailedReloginEndsOperation ==
    ReloginFailed =>
        /\ Len(oplog) = 5
        /\ FirstUnauthorized
        /\ oplog[3].ev = "init_mm"
        /\ oplog[4].ev = "login" /\ ~oplog[4].saved
        /\ oplog[5].ev = "login_result" /\ ~oplog[5].ok
        /\ CountOf(oplog, "attempt") = 1
        /\ CountOf(oplog, "login") = 1
        /\ CountOf(oplog, "sleep") = 0
        /\ wpc = "raised"
        /\ raised = oplog[5].err
        /\ inflight = NoCall
        /\ mm = oplog[3].client
        /\ mm = nClients
        /\ mm # oplog[1].client

\* the re-login of a get_holdings failed with a login error
C27_Witness ==
    /\ op.name = "get_holdings"
    /\ ReloginFailed
    /\ raised.type = "LoginFailedException"
    /\ pc = "terminated"
    /\ mm = 2
    /\ oplog[1].client = 1


\* C28: every invocation of a wrapped fetch has its own two attempts: an
\* unauthorized attempt 1 is retried whatever retries earlier fetches used,
\* so the portfolio report can force one re-login per holdings fetch; in a
\* run of main that has invoked K wrapped fetches there are at most 1 + K
\* logins and at most 2 * K fetch attempts.
C28_BudgetPerOperation ==
    driver = "main" =>
        /\ nLogin <= 1 + nOps
        /\ nAttempts <= 2 * nOps
        /\ FirstUnauthorized => Retried
        /\ CountOf(oplog, "login") <= 1

\* a completed run in which each of the five wrapped fetches, two of them
\* holdings fetches, was retried after a re-login
C28_Witness ==
    /\ Completed
    /\ nOps = 5
    /\ nLogin = 6
    /\ nAttempts = 10


\* the login of main is in flight / has failed
InitialLoginSent == driver = "main" /\ pc = "await_login"
InitialLoginFailed ==
    driver = "main" /\ pc = "terminated" /\ nLogin >= 1 /\ nOps = 0

C29_State ==
    /\ InitialLoginSent =>
          /\ inflight.call = "login"
          /\ inflight.saved
          /\ inflight.client = 1 /\ mm = 1 /\ nClients = 1
          /\ nLogin = 1
          /\ wpc = "none" /\ op = NoOp /\ oplog = <<>>
    /\ (driver = "main" /\ inflight.call = "login" /\ inflight.saved) =>
          pc = "await_login"
    /\ InitialLoginFailed =>
          /\ raised \in LoginErrors
          /\ nLogin = 1
          /\ nAttempts = 0
          /\ inflight = NoCall
          /\ reportsStarted = <<>>
          /\ fs = fs0
C29_Step ==
    (InitialLoginSent /\ inflight' = NoCall) =>
        \/ pc' = "call_report_balances" /\ raised' = NoError
        \/ pc' = "terminated" /\ raised' \in LoginErrors

\* C29: main logs in once, with use_saved_session true, on the client that
\* the constructor made and outside any retry wrapper; when that login fails
\* the run ends with the login's error, no fetch has been sent and no report
\* file has been created or changed.
C29_InitialLoginOnce == []C29_State /\ [][C29_Step]_vars

\* the login of main failed with a 401: it was not retried, and the files
\* that existed are as they were
C29_Witness ==
    /\ InitialLoginFailed
    /\ raised.type = "TransportServerError"
    /\ raised.code = 401
    /\ nLogin = 1
    /\ fs[FN_BALANCE_REPORT] = File(<<BALANCES_HEADER, OldBalanceRow>>)


\* a login was sent in this step, with / without use_saved_session
LoginSent == nLogin' = nLogin + 1
Constructed == mm = 0 /\ mm' = 1
FetchCalls == {"get_accounts", "get_categories", "get_transactions",
               "get_holdings"}

\* in main the first login uses the saved session and every later one is a
\* forced re-login
ForcedLogins == IF nLogin = 0 THEN 0 ELSE nLogin - 1
C30_State ==
    driver = "main" =>
        /\ mm # 0 => nClients = 1 + ForcedLogins
        /\ mm = nClients
        /\ inflight.call \in FetchCalls =>
              /\ inflight.client = mm
              /\ inflight.client \notin rejected
C30_Step ==
    /\ (LoginSent /\ inflight'.saved) => (mm' = mm /\ nClients' = nClients)
    /\ (LoginSent /\ ~inflight'.saved) =>
          /\ mm' = nClients + 1
          /\ nClients' = nClients + 1
          /\ mm' # mm
          /\ inflight'.client = mm'
    /\ mm' # mm => (Constructed \/ (LoginSent /\ ~inflight'.saved))
    /\ nClients' # nClients => mm' # mm
    /\ nAttempts' = nAttempts + 1 =>
          /\ inflight'.call \in FetchCalls
          /\ inflight'.client \notin rejected

\* C30: the client held by the Monarch object is replaced exactly by a login
\* with use_saved_session false: the clients constructed are the one of the
\* constructor and one per forced re-login, a login that uses the saved
\* session keeps the client, and in a run of main no fetch is sent on a
\* client that has returned an unauthorized error.
C30_ClientReplacedOnForcedLogin == []C30_State /\ [][C30_Step]_vars

\* the third client is in use after two clients returned an unauthorized
\* error
C30_Witness ==
    /\ driver = "main"
    /\ rejected = {1, 2}
    /\ inflight.call = "get_transactions"
    /\ inflight.client = 3
    /\ nClients = 3
    /\ nLogin = 3


(***************************************************************************)
(* The two balances files and the list report_balances returns.            *)
(***************************************************************************)
\* the last n elements of a sequence
LastRows(s, n) == SubSeq(s, Len(s) - n + 1, Len(s))

\* after the last successful balances report, outside the moment between
\* the two writes of a later one
C31_State ==
    (balRuns # <<>> /\ pc # "bal_write_history") =>
        LET bal == fs[FN_BALANCE_REPORT].rows
            hist == fs[FN_BALANCE_HISTORY_REPORT].rows
            n == Len(accounts_query)
        IN  /\ accounts_query = balRuns[Len(balRuns)]
            /\ fs[FN_BALANCE_REPORT].exists
            /\ fs[FN_BALANCE_HISTORY_REPORT].exists
            /\ bal = <<BALANCES_HEADER>> \o RowsOf(accounts_query, BalanceRow)
            /\ Len(hist) >= n + 1
            /\ Tail(bal) = LastRows(hist, n)

\* the history file changes only in the step that follows the write of the
\* balances file of the same report, from the same list, which is the list
\* returned; the write of the balances file leaves the history file alone
C31_Step ==
    /\ fs'[FN_BALANCE_HISTORY_REPORT] # fs[FN_BALANCE_HISTORY_REPORT] =>
          /\ pc = "bal_write_history"
          /\ FN_BALANCE_REPORT \in opened
          /\ fs[FN_BALANCE_REPORT].rows =
                <<BALANCES_HEADER>> \o RowsOf(loaded_data, BalanceRow)
          /\ fs'[FN_BALANCE_REPORT] = fs[FN_BALANCE_REPORT]
          /\ LastRows(fs'[FN_BALANCE_HISTORY_REPORT].rows, Len(loaded_data))
                = RowsOf(loaded_data, BalanceRow)
          /\ accounts_query' = loaded_data
    /\ fs'[FN_BALANCE_REPORT] # fs[FN_BALANCE_REPORT] =>
          /\ pc = "bal_write"
          /\ fs'[FN_BALANCE_HISTORY_REPORT] = fs[FN_BALANCE_HISTORY_REPORT]
    /\ (pc = "bal_write_history" /\ pc' # pc) =>
          /\ balRuns' = Append(balRuns, loaded_data)
          /\ accounts_query' = loaded_data

\* C31: after every successful balances report the balances file was
\* written before the history file and both from the same mapped account
\* list: the data rows of the balances file are, in content and order, the
\* last N data rows of the history file, and the list returned to the
\* caller for the portfolio pass is that same list.
C31_BalancesAndHistoryAgree == []C31_State /\ [][C31_Step]_vars

\* a second successful report of two accounts, on a history file that
\* already had a header and a row before the first: the two rows of the
\* balances file are the last two of the six lines of the history file
C31_Witness ==
    /\ driver = "caller"
    /\ Len(balRuns) = 2
    /\ Len(accounts_query) = 2
    /\ pc = "idle"
    /\ fs0[FN_BALANCE_HISTORY_REPORT].exists
    /\ Len(fs0[FN_BALANCE_HISTORY_REPORT].rows) = 2
    /\ Len(fs[FN_BALANCE_HISTORY_REPORT].rows) = 6
    /\ Len(fs[FN_BALANCE_REPORT].rows) = 3
    /\ fs[FN_BALANCE_REPORT].rows[2] # fs[FN_BALANCE_REPORT].rows[3]
    /\ Tail(fs[FN_BALANCE_REPORT].rows)
          = LastRows(fs[FN_BALANCE_HISTORY_REPORT].rows, 2)

\* the same in a run of main, where the list goes on to the portfolio pass
C31_WitnessMain ==
    /\ driver = "main"
    /\ pc = "pf_loop"
    /\ Len(accounts_query) = 2
    /\ Tail(fs[FN_BALANCE_REPORT].rows)
          = LastRows(fs[FN_BALANCE_HISTORY_REPORT].rows, 2)

====
